---------------------------- MODULE Spec2Model ----------------------------
(***************************************************************************)
(* A model of Click's configuration-language front end, lib/lexer.cc:      *)
(* the token pushback ring, the element-class registry, the recursive      *)
(* descent parser (ystatement and everything it calls), compound           *)
(* expansion, connection tunnels and create_router.                        *)
(*                                                                         *)
(* The source text is modelled after tokenisation: `data' is the sequence  *)
(* of lexemes next_lexeme() has still to produce.  Strings are sequences   *)
(* of atoms, so that "c/in" is <<"c", "/", "in">> and string concatenation *)
(* is \o.  C++ indices are kept 0-based (At, SetAt); pointers are indices  *)
(* into a heap, 0 being the null pointer.                                  *)
(***************************************************************************)
EXTENDS Integers, Sequences, FiniteSets, TLC

VARIABLES
  data,                    \* lexemes of _big_string from _pos on
  tcircle, tpos, tfull,    \* the pushback ring
  element_types,           \* Vector<Element *>: heap index per class slot, 0 = null
  element_type_names,      \* Vector<String>
  element_type_next,       \* Vector<int>: next_in_scope / free-list link
  element_type_map,        \* HashMap<String, int>(-1)
  last_element_type,
  free_element_type,
  heap,                    \* every Element object ever allocated (class records)
  elements,                \* Vector<int>: class slot of each element
  element_names,
  element_configurations,
  element_map,             \* HashMap<String, int>(-1)
  hookup_from, hookup_to,  \* Vector<Hookup>
  tunnel_ends,             \* every TunnelEnd object ever allocated
  definputs, defoutputs,   \* heads of the two TunnelEnd lists, 0 = null
  anonymous_offset,
  compound_depth,
  requirements,
  errors,                  \* what was reported to the ErrorHandler, in order
  aborted,                 \* an assert() of the source failed
  router,                  \* what create_router() handed to the Router
  phase,                   \* where the driver is: "idle", "parsing", "parsed",
                           \* "built", "ended"
  cookies,                 \* checkpoints the driver holds, newest first, each
                           \* with the registry as it was when it was taken
  probe                    \* input and result of the pure-function checks

vars == << data, tcircle, tpos, tfull, element_types, element_type_names,
           element_type_next, element_type_map, last_element_type,
           free_element_type, heap, elements, element_names,
           element_configurations, element_map, hookup_from, hookup_to,
           tunnel_ends, definputs, defoutputs, anonymous_offset,
           compound_depth, requirements, errors, aborted, router, phase,
           cookies, probe >>

-----------------------------------------------------------------------------
(* Program constants *)

TUNNEL_TYPE == 0
ERROR_TYPE == 1
TCIRCLE_SIZE == 8

-----------------------------------------------------------------------------
(* Vectors, hash maps, strings *)

At(v, i) == v[i + 1]
SetAt(v, i, x) == [v EXCEPT ![i + 1] = x]
Last(v) == v[Len(v)]

\* HashMap<String, int> with default value -1: operator[] and insert.
\* A binding to -1 is indistinguishable from no binding and is not stored.
MapGet(m, k) == IF k \in DOMAIN m THEN m[k] ELSE -1
MapInsert(m, k, v) ==
  IF v = -1 THEN [x \in DOMAIN m \ {k} |-> m[x]]
  ELSE [x \in DOMAIN m \cup {k} |-> IF x = k THEN v ELSE m[x]]
EmptyMap == [x \in {} |-> -1]

Str(a) == << a >>
Digits == << "0", "1", "2", "3", "4", "5", "6", "7", "8", "9" >>
IsDigitString(w) == Len(w) = 1 /\ \E d \in 1..10 : Digits[d] = w[1]
DigitValue(w) == (CHOOSE d \in 1..10 : Digits[d] = w[1]) - 1

-----------------------------------------------------------------------------
(* Lexemes *)

Lexeme(kind, string) == [kind |-> kind, string |-> string]
LexEOF == Lexeme("EOF", << >>)
Ident(a) == Lexeme("ident", a)
Variable(a) == Lexeme("variable", a)
Punct(k) == Lexeme(k, Str(k))

\* The kinds numbered lexIdent and above: identifiers, variables, the
\* multi-character operators and the reserved words.
MeaningfulKinds == { "ident", "variable", "->", "::", "||", "...",
                     "connectiontunnel", "elementclass", "require" }

-----------------------------------------------------------------------------
(* Element objects (class records) on the heap *)

ElementObject(kind, name, target) ==
  [ kind |-> kind,         \* "Error", "Primitive", "Synonym", "Compound", "deleted"
    name |-> name,
    element |-> target,    \* Synonym::_element
    depth |-> 0, next |-> 0, formals |-> << >>, ninputs |-> 0, noutputs |-> 0,
    elements |-> << >>, element_names |-> << >>,
    element_configurations |-> << >>,
    hookup_from |-> << >>, hookup_to |-> << >> ]

ErrorElement == ElementObject("Error", Str("Error"), 0)
PrimitiveElement(name) == ElementObject("Primitive", name, 0)
Synonym(e) == ElementObject("Synonym", << >>, e)
Compound(name, depth, next) ==
  [ ElementObject("Compound", name, 0) EXCEPT !.depth = depth, !.next = next ]

RECURSIVE class_name(_, _)
class_name(h, e) ==
  IF h[e].kind = "Synonym" THEN class_name(h, h[e].element) ELSE h[e].name

\* cast("Lexer::Compound"): a Synonym forwards the cast to its element.
RECURSIVE is_compound(_, _)
is_compound(h, e) ==
  IF h[e].kind = "Synonym" THEN is_compound(h, h[e].element)
  ELSE h[e].kind = "Compound"

RECURSIVE cast_compound(_, _)
cast_compound(h, e) ==
  IF h[e].kind = "Synonym" THEN cast_compound(h, h[e].element)
  ELSE IF h[e].kind = "Compound" THEN e ELSE 0

Hookup(idx, port) == [idx |-> idx, port |-> port]

-----------------------------------------------------------------------------
(* The Lexer object as one record, threaded through the operators below.   *)
(* `ret' carries a function's return value; environment_map and            *)
(* environments are locals of create_router; `uninit' is the value that a  *)
(* read of an uninitialised int, or of a vector at index -1, yields in     *)
(* this call.                                                              *)

Cur(u) ==
  [ data |-> data, tcircle |-> tcircle, tpos |-> tpos, tfull |-> tfull,
    element_types |-> element_types, element_type_names |-> element_type_names,
    element_type_next |-> element_type_next,
    element_type_map |-> element_type_map,
    last_element_type |-> last_element_type,
    free_element_type |-> free_element_type, heap |-> heap,
    elements |-> elements, element_names |-> element_names,
    element_configurations |-> element_configurations,
    element_map |-> element_map, hookup_from |-> hookup_from,
    hookup_to |-> hookup_to, tunnel_ends |-> tunnel_ends,
    definputs |-> definputs, defoutputs |-> defoutputs,
    anonymous_offset |-> anonymous_offset, compound_depth |-> compound_depth,
    requirements |-> requirements, errors |-> errors, aborted |-> aborted,
    environment_map |-> << >>, environments |-> << >>, router |-> router,
    ret |-> 0, uninit |-> u ]

Becomes(s) ==
  /\ data' = s.data /\ tcircle' = s.tcircle /\ tpos' = s.tpos
  /\ tfull' = s.tfull /\ element_types' = s.element_types
  /\ element_type_names' = s.element_type_names
  /\ element_type_next' = s.element_type_next
  /\ element_type_map' = s.element_type_map
  /\ last_element_type' = s.last_element_type
  /\ free_element_type' = s.free_element_type /\ heap' = s.heap
  /\ elements' = s.elements /\ element_names' = s.element_names
  /\ element_configurations' = s.element_configurations
  /\ element_map' = s.element_map /\ hookup_from' = s.hookup_from
  /\ hookup_to' = s.hookup_to /\ tunnel_ends' = s.tunnel_ends
  /\ definputs' = s.definputs /\ defoutputs' = s.defoutputs
  /\ anonymous_offset' = s.anonymous_offset
  /\ compound_depth' = s.compound_depth
  /\ requirements' = s.requirements /\ errors' = s.errors
  /\ aborted' = s.aborted /\ router' = s.router

Ret(s, v) == [s EXCEPT !.ret = v]

-----------------------------------------------------------------------------
(* Errors *)

\* lerror / ErrorHandler::lerror: the message (without landmark) is recorded.
lerror(s, msg, arg) == [s EXCEPT !.errors = Append(@, << msg, arg >>)]

\* The member functions of the Lexer call each other through Call, which ties
\* the recursive call graph (ystatement -> ... -> ycompound -> ystatement) in
\* one place.
RECURSIVE Call(_, _)

-----------------------------------------------------------------------------
(* Lexing: low level (token granularity) and middle level (with pushback)  *)

next_lexeme(s) ==
  IF s.data = << >> THEN Ret(s, LexEOF)
  ELSE [s EXCEPT !.data = Tail(@), !.ret = Head(s.data)]

lex(s) ==
  LET p == s.tpos
      n == Call("next_lexeme", << s >>)
      s1 == IF s.tpos = s.tfull
            THEN [n EXCEPT !.tcircle[p] = n.ret,
                           !.tfull = (s.tfull + 1) % TCIRCLE_SIZE]
            ELSE s
  IN [s1 EXCEPT !.tpos = (s.tpos + 1) % TCIRCLE_SIZE, !.ret = s1.tcircle[p]]

\* the lexemes pushed back and not yet re-read once the ring is filled up to
\* full with the reader at pos; a ring that has caught up with its reader
\* holds TCIRCLE_SIZE of them
pushed_back(full, pos) ==
  IF full = pos THEN TCIRCLE_SIZE
  ELSE (full - pos + TCIRCLE_SIZE) % TCIRCLE_SIZE

\* unlex that pushes the lexeme back twice
unlex_twice(s, t) ==
  LET next == (s.tfull + 1) % TCIRCLE_SIZE
      full == (s.tfull + 2) % TCIRCLE_SIZE
  IN [s EXCEPT !.tcircle[s.tfull] = t, !.tcircle[next] = t, !.tfull = full,
               !.aborted = @ \/ (full = s.tpos) \/ (next = s.tpos),
               !.router.most_pending =
                  IF pushed_back(full, s.tpos) > @
                  THEN pushed_back(full, s.tpos) ELSE @]

unlex(s, t) ==
  LET full == (s.tfull + 1) % TCIRCLE_SIZE
  IN [s EXCEPT !.tcircle[s.tfull] = t, !.tfull = full,
               !.aborted = @ \/ (full = s.tpos),
               !.router.most_pending =
                  IF pushed_back(full, s.tpos) > @
                  THEN pushed_back(full, s.tpos) ELSE @]

expect(s, kind, report_error) ==
  LET s1 == Call("lex", << s >>)
      t == s1.ret
  IN IF t.kind = kind THEN Ret(s1, TRUE)
     ELSE Ret(Call("unlex", << IF report_error THEN lerror(s1, "expected", Str(kind))
                    ELSE s1, t >>), FALSE)

\* lex_config: the text from _pos up to, not including, the balancing `)'.
RECURSIVE lex_config_scan(_, _, _)
lex_config_scan(d, paren_depth, acc) ==
  IF d = << >> THEN [rest |-> d, conf |-> acc]
  ELSE IF Head(d).kind = "(" THEN
    lex_config_scan(Tail(d), paren_depth + 1, Append(acc, Head(d)))
  ELSE IF Head(d).kind = ")" THEN
    IF paren_depth = 1 THEN [rest |-> d, conf |-> acc]
    ELSE lex_config_scan(Tail(d), paren_depth - 1, Append(acc, Head(d)))
  ELSE lex_config_scan(Tail(d), paren_depth, Append(acc, Head(d)))

lex_config(s) ==
  LET r == lex_config_scan(s.data, 1, << >>)
  IN [s EXCEPT !.data = r.rest, !.ret = r.conf]

\* cp_argvec: the comma-separated arguments at parenthesis depth 0.
RECURSIVE cp_argvec_split(_, _, _, _)
cp_argvec_split(conf, paren_depth, cur, acc) ==
  IF conf = << >> THEN Append(acc, cur)
  ELSE LET k == Head(conf).kind
       IN IF k = "," /\ paren_depth = 0
          THEN cp_argvec_split(Tail(conf), paren_depth, << >>, Append(acc, cur))
          ELSE cp_argvec_split(Tail(conf),
                               IF k = "(" THEN paren_depth + 1
                               ELSE IF k = ")" THEN paren_depth - 1
                               ELSE paren_depth,
                               Append(cur, Head(conf)), acc)

cp_argvec(conf) ==
  IF conf = << >> THEN << >> ELSE cp_argvec_split(conf, 0, << >>, << >>)

-----------------------------------------------------------------------------
(* Element types: the class registry *)

New(s, obj) == [s EXCEPT !.heap = Append(@, obj), !.ret = Len(s.heap) + 1]

\* add_element_type that puts a class whose name is bound into the slot the
\* name is bound to
add_element_type_in_place(s, name0, e) ==
  LET name == IF name0 = << >> THEN class_name(s.heap, e) ELSE name0
      bound == MapGet(s.element_type_map, name)
      fresh == s.free_element_type < 0
      tid == IF fresh THEN Len(s.element_types) ELSE s.free_element_type
      s1 == IF fresh
            THEN [s EXCEPT !.element_types = Append(@, e),
                           !.element_type_names = Append(@, name),
                           !.element_type_next = Append(@, s.last_element_type)]
            ELSE [s EXCEPT !.free_element_type = At(s.element_type_next, tid),
                           !.element_types = SetAt(@, tid, e),
                           !.element_type_names = SetAt(@, tid, name),
                           !.element_type_next = SetAt(@, tid, s.last_element_type)]
  IN IF bound >= 0
     THEN [s EXCEPT !.element_types = SetAt(@, bound, e), !.ret = bound]
     ELSE [s1 EXCEPT !.element_type_map = MapInsert(@, name, tid),
                     !.last_element_type = tid, !.ret = tid]

add_element_type(s, name0, e) ==
  LET name == IF name0 = << >> THEN class_name(s.heap, e) ELSE name0
      fresh == s.free_element_type < 0
      tid == IF fresh THEN Len(s.element_types) ELSE s.free_element_type
      s1 == IF fresh
            THEN [s EXCEPT !.element_types = Append(@, e),
                           !.element_type_names = Append(@, name),
                           !.element_type_next = Append(@, s.last_element_type)]
            ELSE [s EXCEPT !.free_element_type = At(s.element_type_next, tid),
                           !.element_types = SetAt(@, tid, e),
                           !.element_type_names = SetAt(@, tid, name),
                           !.element_type_next = SetAt(@, tid, s.last_element_type)]
  IN [s1 EXCEPT !.element_type_map = MapInsert(@, name, tid),
                !.last_element_type = tid, !.ret = tid]

element_type(s, name) == MapGet(s.element_type_map, name)

force_element_type(s, name) ==
  LET ftid == MapGet(s.element_type_map, name)
  IN IF ftid >= 0 THEN Ret(s, ftid)
     ELSE LET s1 == New(lerror(s, "unknown element class", name), ErrorElement)
          IN Call("add_element_type", << s1, name, s1.ret >>)

lexical_scoping_in(s) == s.last_element_type

RECURSIVE scope_find(_, _, _)
\* the walk of remove_element_type: [prev, trav] where trav = removed or < 0
scope_find(next, removed, pt) ==
  IF pt.trav # removed /\ pt.trav >= 0
  THEN scope_find(next, removed, [prev |-> pt.trav, trav |-> At(next, pt.trav)])
  ELSE pt

RECURSIVE scope_same_name(_, _, _, _)
scope_same_name(next, names, name, trav) ==
  IF trav >= 0 /\ At(names, trav) # name
  THEN scope_same_name(next, names, name, At(next, trav))
  ELSE trav

remove_element_type(s, removed) ==
  LET pt == scope_find(s.element_type_next, removed,
                       [prev |-> -1, trav |-> s.last_element_type])
      name == At(s.element_type_names, removed)
      \* patch next array
      s1 == IF pt.prev >= 0
            THEN [s EXCEPT !.element_type_next =
                             SetAt(@, pt.prev, At(s.element_type_next, removed))]
            ELSE [s EXCEPT !.last_element_type = At(s.element_type_next, removed)]
      \* fix up element type name map
      s2 == IF MapGet(s1.element_type_map, name) = removed
            THEN [s1 EXCEPT !.element_type_map =
                    MapInsert(@, name,
                              scope_same_name(s1.element_type_next,
                                              s1.element_type_names, name,
                                              At(s1.element_type_next, removed)))]
            ELSE s1
      obj == At(s.element_types, removed)
  IN IF pt.trav < 0 THEN s
     ELSE \* remove stuff
       [s2 EXCEPT !.element_type_names = SetAt(@, removed, << >>),
                  !.heap = IF obj = 0 THEN @
                           ELSE [@ EXCEPT ![obj] = ElementObject("deleted", << >>, 0)],
                  !.element_types = SetAt(@, removed, 0),
                  !.element_type_next = SetAt(@, removed, s.free_element_type),
                  !.free_element_type = removed]

RECURSIVE scope_contains(_, _, _)
scope_contains(next, t, last) ==
  IF t < 0 THEN FALSE
  ELSE IF t = last THEN TRUE
  ELSE scope_contains(next, At(next, t), last)

RECURSIVE scope_pop(_, _)
scope_pop(s, last) ==
  IF s.last_element_type # last
  THEN Call("scope_pop", << Call("remove_element_type", << s, s.last_element_type >>), last >>)
  ELSE s

lexical_scoping_out(s, last) ==
  IF last # -1 /\ ~scope_contains(s.element_type_next, s.last_element_type, last)
  THEN s
  ELSE Call("scope_pop", << s, last >>)

-----------------------------------------------------------------------------
(* Elements *)

\* get_element without the test for an existing element
get_element_always_new(s, name, etype, conf) ==
  LET eid == Len(s.elements)
  IN [s EXCEPT !.element_map = MapInsert(@, name, eid),
               !.element_names = Append(@, name),
               !.element_configurations = Append(@, conf),
               !.elements = Append(@, etype),
               !.ret = eid]

get_element(s, name, etype, conf) ==
  LET s0 == [s EXCEPT !.aborted = @ \/ name = << >> \/ etype < 0
                                    \/ etype >= Len(s.element_types)]
  IN \* if an element `name' already exists return it
     IF MapGet(s.element_map, name) >= 0
     THEN Ret(s0, MapGet(s.element_map, name))
     ELSE LET eid == Len(s.elements)
          IN [s0 EXCEPT !.element_map = MapInsert(@, name, eid),
                        !.element_names = Append(@, name),
                        !.element_configurations = Append(@, conf),
                        !.elements = Append(@, etype),
                        !.ret = eid]

RECURSIVE anon_bump(_, _, _)
anon_bump(m, prefix, anonymizer) ==
  IF MapGet(m, prefix \o Str(ToString(anonymizer))) >= 0
  THEN anon_bump(m, prefix, anonymizer + 1)
  ELSE prefix \o Str(ToString(anonymizer))

anon_element_name(s, cname) ==
  anon_bump(s.element_map, cname \o Str("@"),
            Len(s.elements) - s.anonymous_offset + 1)

anon_element_class_name(s, prefix) ==
  anon_bump(s.element_type_map, prefix,
            Len(s.elements) - s.anonymous_offset + 1)

connect(s, element1, port1, element2, port2) ==
  [s EXCEPT !.hookup_from =
              Append(@, Hookup(element1, IF port1 < 0 THEN 0 ELSE port1)),
            !.hookup_to =
              Append(@, Hookup(element2, IF port2 < 0 THEN 0 ELSE port2))]

element_name(s, eid) ==
  IF eid < 0 \/ eid >= Len(s.elements) THEN Str("##no-such-element##")
  ELSE At(s.element_names, eid)

-----------------------------------------------------------------------------
(* Port tunnels *)

TunnelEnd(port, output, next) ==
  [ port |-> port, correspond |-> << >>, expanded |-> 0, output |-> output,
    other |-> 0, next |-> next ]

RECURSIVE find_walk(_, _, _, _)
find_walk(te, d, parent, h) ==
  IF d = 0 THEN [found |-> 0, parent |-> parent]
  ELSE IF te[d].port = h THEN [found |-> d, parent |-> parent]
  ELSE find_walk(te, te[d].next,
                 IF te[d].port.idx = h.idx THEN d ELSE parent, h)

\* TunnelEnd::find pairing the new end with a partner that keeps the port of
\* the parent's partner
TunnelEnd_find_parent_port(s, this, h) ==
  LET te == s.tunnel_ends
      w == find_walk(te, this, 0, h)
  IN IF w.found # 0 THEN Ret(s, w.found)
     ELSE IF w.parent # 0 THEN
       LET p == w.parent
           po == te[p].other
           new_me == Len(te) + 1
           new_other == Len(te) + 2
           me == [TunnelEnd(h, te[this].output, te[p].next)
                    EXCEPT !.other = new_other]
           ot == [TunnelEnd(te[po].port, ~te[this].output, te[po].next)
                    EXCEPT !.other = new_me]
           te2 == Append(Append(te, me), ot)
           te3 == [te2 EXCEPT ![p].next = new_me]
           te4 == [te3 EXCEPT ![po].next = new_other]
       IN [s EXCEPT !.tunnel_ends = te4, !.ret = new_me]
     ELSE Ret(s, 0)

\* TunnelEnd::find, called on the list head `this'
TunnelEnd_find(s, this, h) ==
  LET te == s.tunnel_ends
      w == find_walk(te, this, 0, h)
  IN IF w.found # 0 THEN Ret(s, w.found)
     ELSE IF w.parent # 0 THEN
       \* didn't find the particular port pair; make a new one
       LET p == w.parent
           po == te[p].other
           new_me == Len(te) + 1
           new_other == Len(te) + 2
           me == [TunnelEnd(h, te[this].output, te[p].next)
                    EXCEPT !.other = new_other]
           ot == [TunnelEnd(Hookup(te[po].port.idx, h.port),
                            ~te[this].output, te[po].next)
                    EXCEPT !.other = new_me]
           te2 == Append(Append(te, me), ot)
           te3 == [te2 EXCEPT ![p].next = new_me]
           te4 == [te3 EXCEPT ![po].next = new_other]
       IN [s EXCEPT !.tunnel_ends = te4, !.ret = new_me]
     ELSE Ret(s, 0)

\* the test of add_tunnel that an end's element is a tunnel; ret is `ok'
add_tunnel_element(s, h, name, ok) ==
  IF At(s.elements, h.idx) # TUNNEL_TYPE
  THEN Ret(lerror(lerror(s, "redeclaration of element", name),
                  "previously declared here", name), FALSE)
  ELSE Ret(s, ok)

\* the test of add_tunnel that the list `head' has no end for h; ret is `ok'
add_tunnel_end(s, head, h, msg, name, ok) ==
  LET f == IF head # 0 THEN Call("TunnelEnd_find", << s, head, h >>) ELSE Ret(s, 0)
  IN IF f.ret # 0 THEN Ret(lerror(f, msg, name), FALSE) ELSE Ret(f, ok)

add_tunnel_pair(s, hin, hout, ok) ==
  LET n == Len(s.tunnel_ends)
  IN IF ~ok THEN s
     ELSE [s EXCEPT
             !.tunnel_ends =
                Append(Append(@, [TunnelEnd(hin, FALSE, s.definputs)
                                    EXCEPT !.other = n + 2]),
                       [TunnelEnd(hout, TRUE, s.defoutputs)
                          EXCEPT !.other = n + 1]),
             !.definputs = n + 1,
             !.defoutputs = n + 2]

add_tunnel_hookups(s, hin, hout, namein, nameout) ==
  LET a == Call("add_tunnel_element", << s, hin, namein, TRUE >>)
      b == Call("add_tunnel_element", << a, hout, nameout, a.ret >>)
      c == Call("add_tunnel_end", << b, b.definputs, hin,
                          "redeclaration of connection tunnel input", namein,
                          b.ret >>)
      d == Call("add_tunnel_end", << c, c.defoutputs, hout,
                          "redeclaration of connection tunnel output", nameout,
                          c.ret >>)
  IN Call("add_tunnel_pair", << d, hin, hout, d.ret >>)

add_tunnel(s, namein, nameout) ==
  LET g1 == Call("get_element", << s, namein, TUNNEL_TYPE, << >> >>)
      g2 == Call("get_element", << g1, nameout, TUNNEL_TYPE, << >> >>)
  IN Call("add_tunnel_hookups", << g2, Hookup(g1.ret, 0), Hookup(g2.ret, 0),
                        namein, nameout >>)

-----------------------------------------------------------------------------
(* Compound: swap_router, finish, check_duplicates_until *)

swap_router(s, ct) ==
  [s EXCEPT !.elements = s.heap[ct].elements,
            !.element_names = s.heap[ct].element_names,
            !.element_configurations = s.heap[ct].element_configurations,
            !.hookup_from = s.heap[ct].hookup_from,
            !.hookup_to = s.heap[ct].hookup_to,
            !.heap[ct].elements = s.elements,
            !.heap[ct].element_names = s.element_names,
            !.heap[ct].element_configurations = s.element_configurations,
            !.heap[ct].hookup_from = s.hookup_from,
            !.heap[ct].hookup_to = s.hookup_to]

\* Mark that resizes the vector to port + 1 whatever its size
Mark_resized(v, port) ==
  LET w == IF Len(v) <= port THEN v \o [k \in 1..(port + 1 - Len(v)) |-> 0]
           ELSE SubSeq(v, 1, port + 1)
  IN SetAt(w, port, 1)

\* Vector<int>::resize(n, 0) followed by v[port] = 1
Mark(v, port) ==
  LET w == IF Len(v) <= port THEN v \o [k \in 1..(port + 1 - Len(v)) |-> 0]
           ELSE v
  IN SetAt(w, port, 1)

RECURSIVE finish_count(_, _, _, _)
\* the counting loop of Compound::finish over hookups i..size-1
finish_count(hf, ht, i, acc) ==
  IF i > Len(hf) THEN acc
  ELSE LET a1 == IF hf[i].idx = 0
                 THEN [acc EXCEPT !.from_in = Mark(@, hf[i].port)]
                 ELSE IF hf[i].idx = 1 THEN [acc EXCEPT !.from_out = TRUE]
                 ELSE acc
           a2 == IF ht[i].idx = 1
                 THEN [a1 EXCEPT !.to_out = Mark(@, ht[i].port)]
                 ELSE IF ht[i].idx = 0 THEN [a1 EXCEPT !.to_in = TRUE]
                 ELSE a1
       IN finish_count(hf, ht, i + 1, a2)

RECURSIVE unused_errors(_, _, _, _)
unused_errors(v, i, msg, name) ==
  IF i >= Len(v) THEN << >>
  ELSE (IF At(v, i) = 0 THEN << << msg, name \o Str(ToString(i)) >> >>
        ELSE << >>) \o unused_errors(v, i + 1, msg, name)

\* Compound::finish as a function of the body's hookups:
\* [ninputs, noutputs, errors]
finish_of(name, hf, ht) ==
  LET c == finish_count(hf, ht, 1,
                        [from_in |-> << >>, to_out |-> << >>,
                         to_in |-> FALSE, from_out |-> FALSE])
  IN [ ninputs |-> Len(c.from_in),
       noutputs |-> Len(c.to_out),
       errors |->
         (IF c.to_in
          THEN << << "pseudoelement `input' may only be used as output", name >> >>
          ELSE << >>)
         \o unused_errors(c.from_in, 0, "compound element input unused", name)
         \o (IF c.from_out
             THEN << << "pseudoelement `output' may only be used as input", name >> >>
             ELSE << >>)
         \o unused_errors(c.to_out, 0, "compound element output unused", name) ]

finish(s, ct) ==
  LET c == s.heap[ct]
      f == finish_of(c.name, c.hookup_from, c.hookup_to)
  IN [s EXCEPT !.heap[ct].ninputs = f.ninputs,
               !.heap[ct].noutputs = f.noutputs,
               !.errors = @ \o f.errors,
               !.aborted = @ \/ Len(c.element_names) < 2
                             \/ c.element_names[1] # Str("input")
                             \/ c.element_names[2] # Str("output")]

SameSignature(a, b) ==
  a.ninputs = b.ninputs /\ a.noutputs = b.noutputs
  /\ Len(a.formals) = Len(b.formals)

RECURSIVE duplicate_walk(_, _, _, _)
\* the while loop of check_duplicates_until: is an older body a duplicate?
duplicate_walk(h, me, n, last) ==
  IF n = 0 \/ n = last THEN FALSE
  ELSE LET nc == cast_compound(h, n)
       IN IF nc = 0 THEN FALSE
          ELSE IF SameSignature(h[nc], h[me]) THEN TRUE
          ELSE duplicate_walk(h, me, h[nc].next, last)

RECURSIVE check_duplicates_until(_, _, _)
check_duplicates_until(s, this, last) ==
  IF this = last \/ s.heap[this].next = 0 THEN s
  ELSE LET s1 == IF duplicate_walk(s.heap, this, s.heap[this].next, last)
                 THEN lerror(lerror(s, "redeclaration of", s.heap[this].name),
                             "previously declared here", s.heap[this].name)
                 ELSE s
           nc == cast_compound(s.heap, s.heap[this].next)
       IN IF nc # 0 THEN Call("check_duplicates_until", << s1, nc, last >>) ELSE s1

-----------------------------------------------------------------------------
(* Parsing *)

RECURSIVE ystatement(_, _), ystatements(_), yconnection_loop(_, _, _),
          yconnection_relex(_, _, _), yelement(_, _), ydeclaration(_, _),
          ycompound(_, _), ycompound_bodies(_, _, _, _, _), yelementclass(_),
          ycompound_body_end(_, _, _, _, _)

yport(s, port) ==
  LET s1 == Call("lex", << s >>)
      tlbrack == s1.ret
      s2 == Call("lex", << s1 >>)
      tword == s2.ret
  IN IF tlbrack.kind # "[" THEN
       Ret(Call("unlex", << s1, tlbrack >>), [ok |-> FALSE, port |-> port])
     ELSE IF tword.kind = "ident" THEN
       LET isint == IsDigitString(tword.string)
           s3 == IF isint THEN s2
                 ELSE lerror(s2, "syntax error: port number should be integer", << >>)
       IN Ret(Call("expect", << s3, "]", TRUE >>),
              [ok |-> TRUE,
               port |-> IF isint THEN DigitValue(tword.string) ELSE 0])
     ELSE IF tword.kind = "]" THEN
       Ret(lerror(s2, "syntax error: expected port number", << >>),
           [ok |-> TRUE, port |-> 0])
     ELSE
       Ret(Call("unlex", << lerror(s2, "syntax error: expected port number", << >>), tword >>),
           [ok |-> FALSE, port |-> port])

RECURSIVE ydeclaration_names(_, _, _)
\* the first loop of ydeclaration; `midpoint' is the entry by goto
ydeclaration_names(s, decls, midpoint) ==
  IF ~midpoint THEN
    LET s1 == Call("lex", << s >>)
        t == s1.ret
    IN IF t.kind # "ident"
       THEN Call("ydeclaration_names", << 
              lerror(s1, "syntax error: expected element name", << >>),
              decls, TRUE >>)
       ELSE Call("ydeclaration_names", << s1, Append(decls, t.string), TRUE >>)
  ELSE
    LET s1 == Call("lex", << s >>)
        tsep == s1.ret
    IN IF tsep.kind = "," THEN Call("ydeclaration_names", << s1, decls, FALSE >>)
       ELSE IF tsep.kind = "::" THEN Ret(s1, [ok |-> TRUE, decls |-> decls])
       ELSE Ret(Call("unlex", << lerror(s1, "syntax error: expected `::' or `,'", << >>),
                      tsep >>),
                [ok |-> FALSE, decls |-> decls])

RECURSIVE ydeclaration_declare(_, _, _, _, _)
\* the last loop of ydeclaration
ydeclaration_declare(s, decls, i, etype, configuration) ==
  IF i > Len(decls) THEN s
  ELSE LET name == decls[i]
           e == MapGet(s.element_map, name)
           s1 == IF e >= 0 THEN
                   LET r == lerror(s, "redeclaration of element", name)
                   IN IF At(s.elements, e) # TUNNEL_TYPE
                      THEN lerror(r, "element previously declared here", name)
                      ELSE r
                 ELSE IF MapGet(s.element_type_map, name) >= 0
                 THEN lerror(s, "is an element class", name)
                 ELSE Call("get_element", << s, name, etype, configuration >>)
       IN Call("ydeclaration_declare", << s1, decls, i + 1, etype, configuration >>)

ydeclaration(s, first_element) ==
  LET n == IF first_element # << >>
           THEN Call("ydeclaration_names", << s, << first_element >>, TRUE >>)
           ELSE Call("ydeclaration_names", << s, << >>, FALSE >>)
      decls == n.ret.decls
      s1 == Call("lex", << n >>)
      t == s1.ret
      s2 == IF t.kind = "ident" THEN Call("force_element_type", << s1, t.string >>)
            ELSE Call("ycompound", << s1, << >> >>)
      etype == s2.ret
      s3 == Call("lex", << s2 >>)
      tp == s3.ret
      c == Call("lex_config", << s3 >>)
      s4 == IF tp.kind = "(" THEN Call("expect", << c, ")", TRUE >>) ELSE Call("unlex", << s3, tp >>)
      configuration == IF tp.kind = "(" THEN c.ret ELSE << >>
  IN IF ~n.ret.ok THEN n
     ELSE IF t.kind \notin {"ident", "{"}
     THEN lerror(s1, "missing element type in declaration", << >>)
     ELSE Call("ydeclaration_declare", << s4, decls, 1, etype, configuration >>)

yelement(s, comma_ok) ==
  LET s1 == Call("lex", << s >>)
      t == s1.ret
      sA == IF t.kind = "ident" THEN Ret(s1, element_type(s1, t.string))
            ELSE Call("ycompound", << s1, << >> >>)
      etype0 == sA.ret
      name == IF t.kind = "ident" THEN t.string
              ELSE class_name(sA.heap, At(sA.element_types, etype0))
      sB == Call("lex", << sA >>)
      tparen == sB.ret
      f == IF etype0 < 0 THEN Call("force_element_type", << sB, name >>) ELSE Ret(sB, etype0)
      c == Call("lex_config", << f >>)
      sC == IF tparen.kind = "(" THEN Call("expect", << c, ")", TRUE >>) ELSE Call("unlex", << sB, tparen >>)
      etype == IF tparen.kind = "(" THEN f.ret ELSE etype0
      configuration == IF tparen.kind = "(" THEN c.ret ELSE << >>
      sD == Call("lex", << sC >>)
      t2colon == sD.ret
      sE == Call("unlex", << sD, t2colon >>)
      sF == IF t2colon.kind = "::" \/ (t2colon.kind = "," /\ comma_ok)
            THEN Call("ydeclaration", << sE, name >>)
            ELSE Call("get_element", << lerror(sE, "undeclared element", name),
                             name, ERROR_TYPE, << >> >>)
  IN IF t.kind \notin {"ident", "{"} THEN
       Ret(Call("unlex", << s1, t >>), [ok |-> FALSE, element |-> -1])
     ELSE IF etype >= 0 THEN
       LET g == Call("get_element", << sC, Call("anon_element_name", << sC, name >>), etype, configuration >>)
       IN Ret(g, [ok |-> TRUE, element |-> g.ret])
     ELSE IF MapGet(sC.element_map, name) >= 0 THEN
       Ret(sC, [ok |-> TRUE, element |-> MapGet(sC.element_map, name)])
     ELSE Ret(sF, [ok |-> TRUE, element |-> MapGet(sF.element_map, name)])

\* yconnection from `relex:' on, with element2 parsed and port1 as it stands
yconnection_relex(s, element2, port1) ==
  LET s1 == Call("lex", << s >>)
      t == s1.ret
      useless == IF port1 >= 0
                 THEN lerror(s1, "output port useless at end of chain", << >>)
                 ELSE s1
  IN IF t.kind \in {",", "::"} THEN
       Call("yconnection_relex", << lerror(s1, "syntax error before", t.string),
                         element2, port1 >>)
     ELSE IF t.kind = "->" THEN Call("yconnection_loop", << s1, element2, port1 >>)
     ELSE IF t.kind = "[" THEN
       LET p == Call("yport", << Call("unlex", << s1, t >>), port1 >>)
       IN Call("yconnection_relex", << p, element2, p.ret.port >>)
     ELSE IF t.kind \in {"ident", "{", "}", "||", "connectiontunnel",
                         "elementclass", "require"} THEN
       Ret(Call("unlex", << useless, t >>), TRUE)
     ELSE IF t.kind \in {";", "EOF"} THEN Ret(useless, TRUE)
     ELSE
       LET e == lerror(s1, "syntax error near", t.string)
       IN Ret(IF t.kind \in MeaningfulKinds THEN Call("unlex", << e, t >>) ELSE e, TRUE)

\* one iteration of yconnection's loop, up to `relex:'
yconnection_loop(s, element1, port1) ==
  LET p == Call("yport", << s, -1 >>)
      port2 == p.ret.port
      e == Call("yelement", << p, element1 < 0 >>)
      element2 == e.ret.element
      s1 == IF element1 >= 0 THEN connect(e, element1, port1, element2, port2)
            ELSE IF port2 >= 0
            THEN lerror(e, "input port useless at start of chain", << >>)
            ELSE e
  IN IF ~e.ret.ok THEN
       Ret(IF port1 >= 0
           THEN lerror(e, "output port useless at end of chain", << >>)
           ELSE e,
           element1 >= 0)
     ELSE Call("yconnection_relex", << s1, element2, -1 >>)

\* port1 is read before it is first assigned when the first yelement fails
yconnection(s) == Call("yconnection_loop", << s, -1, s.uninit >>)

yelementclass(s) ==
  LET s1 == Call("lex", << s >>)
      tname == s1.ret
      name == IF tname.kind = "ident" THEN tname.string ELSE << >>
      s2 == IF tname.kind = "ident" THEN s1
            ELSE lerror(Call("unlex", << s1, tname >>), "expected element type name", << >>)
      s3 == Call("lex", << s2 >>)
      tnext == s3.ret
      f == Call("force_element_type", << s3, tnext.string >>)
      syn == New(f, Synonym(At(f.element_types, f.ret)))
      err == New(lerror(s3, "syntax error near", tnext.string), ErrorElement)
  IN IF tnext.kind = "{" THEN Call("ycompound", << s3, name >>)
     ELSE IF tnext.kind = "ident" THEN Call("add_element_type", << syn, name, syn.ret >>)
     ELSE Call("add_element_type", << err, name, err.ret >>)

RECURSIVE ytunnel(_)
ytunnel(s) ==
  LET s1 == Call("lex", << s >>)
      tname1 == s1.ret
      s2 == IF tname1.kind # "ident"
            THEN lerror(Call("unlex", << s1, tname1 >>), "expected port name", << >>)
            ELSE s1
      s3 == Call("expect", << s2, "->", TRUE >>)
      s4 == Call("lex", << s3 >>)
      tname2 == s4.ret
      s5 == IF tname2.kind # "ident"
            THEN lerror(Call("unlex", << s4, tname2 >>), "expected port name", << >>)
            ELSE s4
      s6 == IF tname1.kind = "ident" /\ tname2.kind = "ident"
            THEN Call("add_tunnel", << s5, tname1.string, tname2.string >>)
            ELSE s5
      s7 == Call("lex", << s6 >>)
      t == s7.ret
  IN IF t.kind # "," THEN Call("unlex", << s7, t >>) ELSE Call("ytunnel", << s7 >>)

RECURSIVE ycompound_arguments(_, _)
ycompound_arguments(s, comptype) ==
  LET s1 == Call("lex", << s >>)
      tvar == s1.ret
      s2 == [s1 EXCEPT !.heap[comptype].formals = Append(@, tvar.string)]
      s3 == Call("lex", << s2 >>)
      tsep == s3.ret
  IN IF tvar.kind # "variable" THEN Call("unlex", << s1, tvar >>)
     ELSE IF tsep.kind = "|" THEN s3
     ELSE IF tsep.kind # "," THEN
       Call("unlex", << lerror(s3, "expected `,' or `|'", << >>), tsep >>)
     ELSE Call("ycompound_arguments", << s3, comptype >>)

\* the end of one turn of ycompound's while (1) loop, from the restoring of
\* the saved state on; s6 is the lexer after the body's statements
ycompound_body_end(s6, name, ct, old_offset, old_type_map) ==
  LET s7 == [s6 EXCEPT !.compound_depth = @ - 1,
                       !.anonymous_offset = old_offset,
                       !.element_type_map = old_type_map]
      s8 == Call("finish", << Call("swap_router", << s7, ct >>), ct >>)
      s9 == Call("lex", << s8 >>)
      t == s9.ret
  IN IF t.kind # "||" THEN Ret(s9, ct)
     ELSE Call("ycompound_bodies", << s9, name, ct, old_offset, s6.element_type_map >>)

\* one turn of ycompound's while (1) loop; old_type_map is the local that
\* is swapped with _element_type_map after every body
ycompound_bodies(s, name, created, old_offset, old_type_map) ==
  LET c0 == New([s EXCEPT !.element_map = EmptyMap],
                Compound(name, s.compound_depth, created))
      ct == c0.ret
      s1 == Call("swap_router", << c0, ct >>)
      s2 == Call("get_element", << s1, Str("input"), TUNNEL_TYPE, << >> >>)
      s3 == Call("get_element", << s2, Str("output"), TUNNEL_TYPE, << >> >>)
      s4 == [s3 EXCEPT !.anonymous_offset = 2, !.compound_depth = @ + 1]
      s5 == Call("ycompound_arguments", << s4, ct >>)
  IN Call("ycompound_body_end", << Call("ystatements", << s5 >>), name, ct,
                                   old_offset, old_type_map >>)

\* the class every use of the name reaches, whatever the body starts with
extended_class_bound(s, t, name) ==
  IF MapGet(s.element_type_map, name) >= 0
  THEN At(s.element_types, MapGet(s.element_type_map, name))
  ELSE 0

\* ycompound's `first': the class a body list that starts with '...' extends
extended_class(s, t, name) ==
  IF t.kind = "..."
  THEN At(s.element_types, MapGet(s.element_type_map, name))
  ELSE 0

\* ycompound on the way out; b is the lexer after the last body
ycompound_end(b, name, first, old_element_map) ==
  LET s4 == Call("check_duplicates_until", << b, b.ret, first >>)
  IN Call("add_element_type", << [s4 EXCEPT !.element_map = old_element_map],
                                 name, b.ret >>)

ycompound(s, name0) ==
  LET name == IF name0 = << >>
              THEN Call("anon_element_class_name", << s, << "@", "Class" >> >>)
              ELSE name0
      s1 == Call("lex", << [s EXCEPT !.element_map = EmptyMap] >>)
      t == s1.ret
      \* check for '...'
      e == New(lerror(s1, "extending unknwon element class", name), ErrorElement)
      s2 == IF MapGet(s1.element_type_map, name) < 0
            THEN Call("add_element_type", << e, name, e.ret >>)
            ELSE s1
      s3 == IF t.kind = "..." THEN Call("expect", << s2, "||", TRUE >>)
            ELSE Call("unlex", << s1, t >>)
  IN Call("ycompound_end",
          << Call("ycompound_bodies",
                  << s3, name, extended_class(s2, t, name), s.anonymous_offset,
                     s.element_type_map >>),
             name, extended_class(s2, t, name), s.element_map >>)

RECURSIVE yrequire_words(_, _, _)
yrequire_words(s, args, i) ==
  IF i > Len(args) THEN s
  ELSE Call("yrequire_words", << 
         IF Len(args[i]) = 1 /\ args[i][1].kind = "ident"
         THEN [s EXCEPT !.requirements = Append(@, args[i][1].string)]
         ELSE lerror(s, "bad requirement: should be a single word", << >>),
         args, i + 1 >>)

yrequire(s) ==
  LET s1 == Call("expect", << s, "(", TRUE >>)
      c == Call("lex_config", << s1 >>)
  IN IF s1.ret THEN Call("expect", << Call("yrequire_words", << c, cp_argvec(c.ret), 1 >>), ")", TRUE >>)
     ELSE s1

ystatement(s, nested) ==
  LET s1 == Call("lex", << s >>)
      t == s1.ret
      syntax_error == Ret(lerror(s1, "syntax error near", t.string), TRUE)
  IN IF t.kind \in {"ident", "[", "{"} THEN Ret(Call("yconnection", << Call("unlex", << s1, t >>) >>), TRUE)
     ELSE IF t.kind = "elementclass" THEN Ret(Call("yelementclass", << s1 >>), TRUE)
     ELSE IF t.kind = "connectiontunnel" THEN Ret(Call("ytunnel", << s1 >>), TRUE)
     ELSE IF t.kind = "require" THEN Ret(Call("yrequire", << s1 >>), TRUE)
     ELSE IF t.kind = ";" THEN Ret(s1, TRUE)
     ELSE IF t.kind \in {"}", "||"} THEN
       IF ~nested THEN syntax_error ELSE Ret(Call("unlex", << s1, t >>), FALSE)
     ELSE IF t.kind = "EOF" THEN
       Ret(IF nested THEN lerror(s1, "expected `}'", << >>) ELSE s1, FALSE)
     ELSE syntax_error

\* while (ystatement(true)) ;
ystatements(s) ==
  LET s1 == Call("ystatement", << s, TRUE >>)
  IN IF s1.ret THEN Call("ystatements", << s1 >>) ELSE s1

-----------------------------------------------------------------------------
(* VariableEnvironment: a list of [formal, value, depth] bindings *)

ve_depth(ve) == IF ve = << >> THEN -1 ELSE Last(ve).depth

ve_limit_depth(ve, d) == SelectSeq(ve, LAMBDA b : b.depth < d)

ve_enter(ve, formals, args, d) ==
  ve \o [i \in 1..Len(formals) |->
           [formal |-> formals[i],
            value |-> IF i <= Len(args) THEN args[i] ELSE << >>,
            depth |-> d]]

RECURSIVE ve_lookup(_, _, _)
ve_lookup(ve, i, tok) ==
  IF i = 0 THEN << tok >>
  ELSE IF ve[i].formal = tok.string THEN ve[i].value
  ELSE ve_lookup(ve, i - 1, tok)

RECURSIVE ve_interpolate(_, _)
ve_interpolate(ve, conf) ==
  IF conf = << >> THEN << >>
  ELSE (IF Head(conf).kind = "variable" THEN ve_lookup(ve, Len(ve), Head(conf))
        ELSE << Head(conf) >>) \o ve_interpolate(ve, Tail(conf))

-----------------------------------------------------------------------------
(* Compound: overload selection and expansion *)

RECURSIVE find_relevant_class_any_formals(_, _, _, _, _)
\* find_relevant_class without the comparison of the number of formals
find_relevant_class_any_formals(h, ct, ninputs, noutputs, nargs) ==
  IF h[ct].ninputs = ninputs /\ h[ct].noutputs = noutputs
  THEN ct
  ELSE LET e == h[ct].next
       IN IF e = 0 THEN 0
          ELSE IF cast_compound(h, e) # 0
          THEN find_relevant_class_any_formals(h, cast_compound(h, e),
                                               ninputs, noutputs, nargs)
          ELSE e

RECURSIVE find_relevant_class(_, _, _, _, _)
find_relevant_class(h, ct, ninputs, noutputs, nargs) ==
  IF h[ct].ninputs = ninputs /\ h[ct].noutputs = noutputs
     /\ Len(h[ct].formals) = nargs
  THEN ct
  ELSE LET e == h[ct].next
       IN IF e = 0 THEN 0
          ELSE IF cast_compound(h, e) # 0
          THEN find_relevant_class(h, cast_compound(h, e),
                                   ninputs, noutputs, nargs)
          ELSE e

\* a vector read that may be out of bounds
Read(s, v, i) == IF i >= 0 /\ i < Len(v) THEN At(v, i) ELSE s.uninit

RECURSIVE expand_into_elements(_, _, _, _, _, _)
\* the loop of expand_into over the body's elements; ret is eidx_map
expand_into_elements(s, c, i, ename_slash, ve, eidx_map) ==
  IF i >= Len(c.elements) THEN Ret(s, eidx_map)
  ELSE LET cname == ename_slash \o At(c.element_names, i)
           eidx == MapGet(s.element_map, cname)
           s1 == IF MapGet(s.element_type_map, cname) >= 0
                 THEN lerror(s, "is an element class", cname)
                 ELSE s
           g == Call("get_element", << s1, cname, At(c.elements, i),
                            ve_interpolate(ve, At(c.element_configurations, i)) >>)
       IN IF eidx >= 0
          THEN Call("expand_into_elements", << 
                 lerror(lerror(s, "redeclaration of element", cname),
                        "previously declared here", cname),
                 c, i + 1, ename_slash, ve, Append(eidx_map, -1) >>)
          ELSE Call("expand_into_elements", << g, c, i + 1, ename_slash, ve,
                                    Append(eidx_map, g.ret) >>)

RECURSIVE expand_into_hookups(_, _, _, _)
expand_into_hookups(s, c, i, eidx_map) ==
  IF i > Len(c.hookup_from) THEN s
  ELSE LET hf == c.hookup_from[i]
           ht == c.hookup_to[i]
           f == Read(s, eidx_map, hf.idx)
           t == Read(s, eidx_map, ht.idx)
       IN Call("expand_into_hookups", << 
            IF f >= 0 /\ t >= 0 THEN connect(s, f, hf.port, t, ht.port) ELSE s,
            c, i + 1, eidx_map >>)

expand_into(s, comp, which, ve) ==
  LET c == s.heap[comp]
      ename == At(s.element_names, which)
      \* `name_slash' is `name' constrained to end with a slash
      ename_slash == IF Last(ename) = "/" THEN ename ELSE ename \o Str("/")
      s1 == [s EXCEPT !.elements = SetAt(@, which, TUNNEL_TYPE),
                      !.aborted = @ \/ Len(c.element_names) < 2
                                    \/ c.element_names[1] # Str("input")
                                    \/ c.element_names[2] # Str("output")]
      s2 == Call("add_tunnel", << s1, ename, ename_slash \o Str("input") >>)
      s3 == Call("add_tunnel", << s2, ename_slash \o Str("output"), ename >>)
      eidx_map == << MapGet(s3.element_map, ename_slash \o Str("input")),
                     MapGet(s3.element_map, ename_slash \o Str("output")) >>
      s4 == Call("expand_into_elements", << s3, c, 2, ename_slash, ve, eidx_map >>)
  IN \* now copy hookups
     Call("expand_into_hookups", << s4, c, 1, s4.ret >>)

RECURSIVE ports_used(_, _, _, _)
\* one past the highest port of `which' among hookups[i..], at least `used'
ports_used(hookups, which, i, used) ==
  IF i > Len(hookups) THEN used
  ELSE ports_used(hookups, which, i + 1,
                  IF hookups[i].idx = which /\ hookups[i].port >= used
                  THEN hookups[i].port + 1 ELSE used)

RECURSIVE slot_of(_, _, _)
slot_of(types, e, i) ==
  IF i >= Len(types) THEN -1
  ELSE IF At(types, i) = e THEN i
  ELSE slot_of(types, e, i + 1)

\* expand_into in the environment vei, and the marking of the new elements
expand_with(s, comp, which, vei, old_nelements) ==
  LET x == Call("expand_into", << s, comp, which, At(s.environments, vei) >>)
  IN \* mark new environments
     [x EXCEPT !.environment_map =
                 @ \o [k \in 1..(Len(x.elements) - old_nelements) |-> vei]]

\* create prefix and variable environment, then expand
expand_in_environment(s, comp, which, args, vei0) ==
  LET depth == s.heap[comp].depth
      fresh == Len(args) = 0 /\ depth = 0
      enter == Len(args) > 0 \/ ve_depth(At(s.environments, vei0)) >= depth
      new_ve == ve_enter(
                  ve_limit_depth(IF vei0 > 0 THEN At(s.environments, vei0)
                                 ELSE << >>, depth),
                  s.heap[comp].formals, args, depth)
  IN IF fresh THEN Call("expand_with", << s, comp, which, 0, Len(s.elements) >>)
     ELSE IF enter
     THEN Call("expand_with", << [s EXCEPT !.environments = Append(@, new_ve)], comp,
                      which, Len(s.environments), Len(s.elements) >>)
     ELSE Call("expand_with", << s, comp, which, vei0, Len(s.elements) >>)

\* expand_found that reports an overload miss and leaves the element's class
expand_found_keeps_class(s, which, args, cname, found_c, slot) ==
  IF found_c = 0 THEN
    [s EXCEPT !.errors = Append(@, << "no match for", cname >>)]
  ELSE IF cast_compound(s.heap, found_c) = 0 THEN
    IF slot >= 0 THEN [s EXCEPT !.elements = SetAt(@, which, slot)]
    ELSE [s EXCEPT !.elements = SetAt(@, which, ERROR_TYPE),
                   !.aborted = TRUE]
  ELSE Call("expand_in_environment", << s, cast_compound(s.heap, found_c), which, args,
                             At(s.environment_map, which) >>)

\* what expand_compound_element does with the result of find_relevant_class
expand_found(s, which, args, cname, found_c, slot) ==
  IF found_c = 0 THEN
    [s EXCEPT !.errors = Append(@, << "no match for", cname >>),
              !.elements = SetAt(@, which, ERROR_TYPE)]
  ELSE IF cast_compound(s.heap, found_c) = 0 THEN
    \* have putatively correct version, not a compound
    IF slot >= 0 THEN [s EXCEPT !.elements = SetAt(@, which, slot)]
    ELSE [s EXCEPT !.elements = SetAt(@, which, ERROR_TYPE),
                   !.aborted = TRUE]
  ELSE Call("expand_in_environment", << s, cast_compound(s.heap, found_c), which, args,
                             At(s.environment_map, which) >>)

\* the class record selected for element which
select_class(s, which, c, ninputs, noutputs, args) ==
  LET found_c == IF c = 0 THEN 0
                 ELSE find_relevant_class(s.heap, c, ninputs, noutputs,
                                          Len(args))
      r == Call("expand_found", << s, which, args,
                        IF c = 0 THEN << >> ELSE s.heap[c].name, found_c,
                        slot_of(s.element_types, found_c, 0) >>)
  IN [r EXCEPT !.router.expansions =
                 Append(@, [ which |-> which, class |-> c,
                             ninputs |-> ninputs, noutputs |-> noutputs,
                             nargs |-> Len(args), found |-> found_c,
                             etype |-> At(s.elements, which),
                             first |-> Len(s.elements),
                             grew |-> << Len(r.elements) - Len(s.elements),
                                         Len(r.hookup_from) - Len(s.hookup_from) >> ])]

expand_compound_element(s, which) ==
  LET etype == At(s.elements, which)
      \* the class record is used as a Compound whatever it is; a Synonym
      \* read as a Compound yields its element's fields or garbage
      c == IF s.heap[At(s.element_types, etype)].kind = "Compound"
           THEN At(s.element_types, etype)
           ELSE IF s.uninit >= 0
           THEN cast_compound(s.heap, At(s.element_types, etype))
           ELSE 0
  IN \* find right version
     Call("select_class", << s, which, c,
                  ports_used(s.hookup_to, which, 1, 0),
                  ports_used(s.hookup_from, which, 1, 0),
                  cp_argvec(At(s.element_configurations, which)) >>)

-----------------------------------------------------------------------------
(* Tunnel expansion *)

RECURSIVE find_connections(_, _, _, _)
find_connections(hookup_this, hookup_that, this_end, i) ==
  IF i > Len(hookup_this) THEN << >>
  ELSE (IF hookup_this[i] = this_end THEN << hookup_that[i] >> ELSE << >>)
       \o find_connections(hookup_this, hookup_that, this_end, i + 1)

\* the diagnostic of TunnelEnd::expand for an end that reaches nothing
unused_error(s, d) ==
  LET e == s.tunnel_ends[d]
      o == s.tunnel_ends[e.other]
      inh == IF e.output THEN o.port ELSE e.port
      outh == IF e.output THEN e.port ELSE o.port
      in_name == element_name(s, inh.idx)
      out_name == element_name(s, outh.idx)
  IN IF in_name \o << "/", "input" >> = out_name
     THEN lerror(s, IF e.output THEN "input unused" ELSE "has no input",
                 in_name \o Str(ToString(inh.port)))
     ELSE IF in_name = out_name \o << "/", "output" >>
     THEN lerror(s, IF e.output THEN "has no output" ELSE "output unused",
                 out_name \o Str(ToString(outh.port)))
     ELSE lerror(s, IF e.output THEN "tunnel input unused"
                    ELSE "tunnel output unused",
                 in_name \o Str("->") \o out_name)

\* what is remembered of a call of TunnelEnd::expand on end d and of its
\* return: the tunnel ends and the errors as they are at that moment
expand_event(s, op, d, appended) ==
  [ op |-> op, end |-> d, appended |-> appended,
    tunnel_ends |-> s.tunnel_ends, errors |-> s.errors ]

expand_called(s, d) ==
  [s EXCEPT !.router.expands = Append(@, expand_event(s, "call", d, << >>))]

\* ret is what the call appends to `into'
expand_returns(s, d, appended) ==
  [s EXCEPT !.router.expands = Append(@, expand_event(s, "return", d, appended)),
            !.ret = appended]

RECURSIVE TunnelEnd_expand(_, _), expand_connection(_, _, _),
          expand_connections(_, _, _, _)

\* TunnelEnd::expand that leaves the end as it is after the expansion
TunnelEnd_expand_unfinished(s, d) ==
  LET e == s.tunnel_ends[d]
      s1 == [expand_called(s, d) EXCEPT !.tunnel_ends[d].expanded = 1]
      other_port == s.tunnel_ends[e.other].port
      connections ==
        IF ~e.output
        THEN find_connections(s.hookup_from, s.hookup_to, other_port, 1)
        ELSE find_connections(s.hookup_to, s.hookup_from, other_port, 1)
      s2 == IF connections = << >> THEN Call("unused_error", << s1, d >>) ELSE s1
      s3 == Call("expand_connections", << s2, d, connections, 1 >>)
  IN IF e.expanded = 1 THEN expand_returns(expand_called(s, d), d, << >>)
     ELSE IF e.expanded = 0
     THEN expand_returns(s3, d, s3.tunnel_ends[d].correspond)
     ELSE expand_returns(expand_called(s, d), d, e.correspond)

\* TunnelEnd_expand whose re-entry hands out what the end has collected so far
TunnelEnd_expand_reentrant(s, d) ==
  LET e == s.tunnel_ends[d]
      s1 == [expand_called(s, d) EXCEPT !.tunnel_ends[d].expanded = 1]
      other_port == s.tunnel_ends[e.other].port
      connections ==
        IF ~e.output
        THEN find_connections(s.hookup_from, s.hookup_to, other_port, 1)
        ELSE find_connections(s.hookup_to, s.hookup_from, other_port, 1)
      s2 == IF connections = << >> THEN Call("unused_error", << s1, d >>) ELSE s1
      s3 == Call("expand_connections", << s2, d, connections, 1 >>)
      s4 == [s3 EXCEPT !.tunnel_ends[d].expanded = 2]
  IN IF e.expanded = 0
     THEN expand_returns(s4, d, s4.tunnel_ends[d].correspond)
     ELSE expand_returns(expand_called(s, d), d, e.correspond)

\* ret is what the call appends to `into'
TunnelEnd_expand(s, d) ==
  LET e == s.tunnel_ends[d]
      s1 == [expand_called(s, d) EXCEPT !.tunnel_ends[d].expanded = 1]
      other_port == s.tunnel_ends[e.other].port
      connections ==
        IF ~e.output
        THEN find_connections(s.hookup_from, s.hookup_to, other_port, 1)
        ELSE find_connections(s.hookup_to, s.hookup_from, other_port, 1)
      \* give good errors for unused or nonexistent compound element ports
      s2 == IF connections = << >> THEN Call("unused_error", << s1, d >>) ELSE s1
      s3 == Call("expand_connections", << s2, d, connections, 1 >>)
      s4 == [s3 EXCEPT !.tunnel_ends[d].expanded = 2]
  IN IF e.expanded = 1 THEN expand_returns(expand_called(s, d), d, << >>)
     ELSE IF e.expanded = 0
     THEN expand_returns(s4, d, s4.tunnel_ends[d].correspond)
     ELSE expand_returns(expand_called(s, d), d, e.correspond)

\* for each connection: expand_connection(connections[i], _output, _correspond)
expand_connections(s, d, connections, i) ==
  IF i > Len(connections) THEN s
  ELSE LET x == Call("expand_connection", << s, connections[i], s.tunnel_ends[d].output >>)
       IN Call("expand_connections", << 
            [x EXCEPT !.tunnel_ends[d].correspond = @ \o x.ret],
            d, connections, i + 1 >>)

\* expand_connection that looks a tunnel port up on the other side's list
expand_connection_other_side(s, this_end, is_out) ==
  LET head == IF is_out THEN s.definputs ELSE s.defoutputs
      f == IF head # 0 THEN Call("TunnelEnd_find", << s, head, this_end >>) ELSE Ret(s, 0)
  IN IF Read(s, s.elements, this_end.idx) # TUNNEL_TYPE
     THEN Ret(s, << this_end >>)
     ELSE IF f.ret # 0 THEN Call("TunnelEnd_expand", << f, f.ret >>)
     ELSE Ret(f, << >>)

\* ret is what the call appends to `into'
expand_connection(s, this_end, is_out) ==
  LET head == IF is_out THEN s.defoutputs ELSE s.definputs
      f == IF head # 0 THEN Call("TunnelEnd_find", << s, head, this_end >>) ELSE Ret(s, 0)
      wrong == IF is_out THEN s.definputs ELSE s.defoutputs
      \* find() called through a null head walks nothing and returns null
      g == IF wrong # 0 THEN Call("TunnelEnd_find", << f, wrong, this_end >>) ELSE Ret(f, 0)
  IN IF Read(s, s.elements, this_end.idx) # TUNNEL_TYPE
     THEN Ret(s, << this_end >>)
     ELSE IF f.ret # 0 THEN Call("TunnelEnd_expand", << f, f.ret >>)
     ELSE IF g.ret # 0
     THEN Ret(lerror(g, IF is_out THEN "used as output" ELSE "used as input",
                     element_name(g, this_end.idx)),
              << >>)
     ELSE Ret(g, << >>)

-----------------------------------------------------------------------------
(* Completion: create_router *)

\* elements and connections: what the Router received; expansions: which class
\* record each call of expand_compound_element selected; expands: the calls
\* and returns of TunnelEnd::expand in the order they happened; most_pending:
\* the most lexemes any unlex of the parse has left pushed back
NoRouter ==
  [ built |-> FALSE, elements |-> << >>, connections |-> << >>,
    expansions |-> << >>, expands |-> << >>, most_pending |-> 0 ]

\* Router::add_connection, remembering the lexer hookups it was mapped from
add_connection(s, fromi, hf, toi, ht) ==
  [s EXCEPT !.router.connections =
              Append(@, [from |-> Hookup(fromi, hf.port),
                         to |-> Hookup(toi, ht.port),
                         hookup_from |-> hf, hookup_to |-> ht])]

RECURSIVE add_router_connections_to(_, _, _, _, _, _)
add_router_connections_to(s, router_id, eidx, hf, hto, t) ==
  IF t > Len(hto) THEN s
  ELSE LET tidx == Read(s, router_id, hto[t].idx)
       IN Call("add_router_connections_to", << 
            IF tidx >= 0 THEN add_connection(s, eidx, hf, tidx, hto[t]) ELSE s,
            router_id, eidx, hf, hto, t + 1 >>)

RECURSIVE add_router_connections_from(_, _, _, _, _)
add_router_connections_from(s, router_id, hfrom, hto, f) ==
  IF f > Len(hfrom) THEN s
  ELSE LET eidx == Read(s, router_id, hfrom[f].idx)
       IN Call("add_router_connections_from", << 
            IF eidx >= 0
            THEN Call("add_router_connections_to", << s, router_id, eidx, hfrom[f], hto, 1 >>)
            ELSE s,
            router_id, hfrom, hto, f + 1 >>)

add_router_connections(s, c, router_id) ==
  LET xf == Call("expand_connection", << s, s.hookup_from[c], TRUE >>)
      xt == Call("expand_connection", << xf, s.hookup_to[c], FALSE >>)
  IN Call("add_router_connections_from", << xt, router_id, xf.ret, xt.ret, 1 >>)

RECURSIVE expand_compounds(_, _)
\* the expansion scan of create_router from element i on
expand_compounds(s, i) ==
  IF i >= Len(s.elements) THEN s
  ELSE LET t == At(s.elements, i)
       IN Call("expand_compounds", << 
            IF t # TUNNEL_TYPE /\ is_compound(s.heap, At(s.element_types, t))
            THEN Call("expand_compound_element", << s, i >>)
            ELSE s,
            i + 1 >>)

RECURSIVE add_elements(_, _, _)
\* ret is router_id
add_elements(s, i, router_id) ==
  IF i >= Len(s.elements) THEN Ret(s, router_id)
  ELSE IF At(s.elements, i) # TUNNEL_TYPE
  THEN Call("add_elements", << 
         [s EXCEPT !.router.elements =
                     Append(@, [name |-> At(s.element_names, i),
                                etype |-> At(s.elements, i),
                                configuration |-> At(s.element_configurations, i)])],
         i + 1, Append(router_id, Len(s.router.elements)) >>)
  ELSE Call("add_elements", << s, i + 1, Append(router_id, -1) >>)

\* the test of create_router for a connection that needs no tunnel expansion
both_mapped(fromi, toi) == fromi >= 0 /\ toi >= 0

RECURSIVE add_connections(_, _, _)
add_connections(s, i, router_id) ==
  IF i > Len(s.hookup_from) THEN s
  ELSE LET fromi == Read(s, router_id, s.hookup_from[i].idx)
           toi == Read(s, router_id, s.hookup_to[i].idx)
       IN Call("add_connections", << 
            IF both_mapped(fromi, toi)
            THEN add_connection(s, fromi, s.hookup_from[i], toi, s.hookup_to[i])
            ELSE Call("add_router_connections", << s, i, router_id >>),
            i + 1, router_id >>)

create_router(s) ==
  LET s0 == [s EXCEPT !.router = [NoRouter EXCEPT !.built = TRUE],
                      !.environment_map = [i \in 1..Len(s.elements) |-> 0],
                      !.environments = << << >> >>]
      \* expand compounds
      s1 == Call("expand_compounds", << s0, 0 >>)
      \* add elements to router
      s2 == Call("add_elements", << s1, 0, << >> >>)
  IN \* add connections to router
     Call("add_connections", << s2, 1, s2.ret >>)

-----------------------------------------------------------------------------
(* begin_parse, end_parse *)

begin_parse(s, text) == [s EXCEPT !.data = text, !.ret = lexical_scoping_in(s)]

end_parse(s, cookie) ==
  [Call("lexical_scoping_out", << s, cookie >>) EXCEPT
     !.definputs = 0, !.defoutputs = 0, !.tunnel_ends = << >>,
     !.elements = << >>, !.element_names = << >>,
     !.element_configurations = << >>, !.element_map = EmptyMap,
     !.hookup_from = << >>, !.hookup_to = << >>, !.requirements = << >>,
     !.data = << >>, !.tpos = 0, !.tfull = 0,
     !.anonymous_offset = 0, !.compound_depth = 0]

-----------------------------------------------------------------------------
(* Calls of member functions *)

\* a call of the member function name with the arguments a.  As in C++ the
\* arguments are computed before the function is entered: the first test
\* looks at the tuple of arguments, which no call leaves empty.
Call(name, a) ==
  CASE a = << >> -> a
    [] name = "next_lexeme" -> next_lexeme(a[1])
    [] name = "lex" -> lex(a[1])
    [] name = "unlex" -> unlex(a[1], a[2])
    [] name = "expect" -> expect(a[1], a[2], a[3])
    [] name = "lex_config" -> lex_config(a[1])
    [] name = "add_element_type" -> add_element_type(a[1], a[2], a[3])
    [] name = "force_element_type" -> force_element_type(a[1], a[2])
    [] name = "remove_element_type" -> remove_element_type(a[1], a[2])
    [] name = "scope_pop" -> scope_pop(a[1], a[2])
    [] name = "lexical_scoping_out" -> lexical_scoping_out(a[1], a[2])
    [] name = "get_element" -> get_element(a[1], a[2], a[3], a[4])
    [] name = "anon_element_name" -> anon_element_name(a[1], a[2])
    [] name = "anon_element_class_name" -> anon_element_class_name(a[1], a[2])
    [] name = "TunnelEnd_find" -> TunnelEnd_find(a[1], a[2], a[3])
    [] name = "add_tunnel_element" -> add_tunnel_element(a[1], a[2], a[3], a[4])
    [] name = "add_tunnel_end" -> add_tunnel_end(a[1], a[2], a[3], a[4], a[5], a[6])
    [] name = "add_tunnel_pair" -> add_tunnel_pair(a[1], a[2], a[3], a[4])
    [] name = "add_tunnel_hookups" -> add_tunnel_hookups(a[1], a[2], a[3], a[4], a[5])
    [] name = "add_tunnel" -> add_tunnel(a[1], a[2], a[3])
    [] name = "swap_router" -> swap_router(a[1], a[2])
    [] name = "finish" -> finish(a[1], a[2])
    [] name = "check_duplicates_until" -> check_duplicates_until(a[1], a[2], a[3])
    [] name = "yport" -> yport(a[1], a[2])
    [] name = "ydeclaration_names" -> ydeclaration_names(a[1], a[2], a[3])
    [] name = "ydeclaration_declare" -> ydeclaration_declare(a[1], a[2], a[3], a[4], a[5])
    [] name = "ydeclaration" -> ydeclaration(a[1], a[2])
    [] name = "yelement" -> yelement(a[1], a[2])
    [] name = "yconnection_relex" -> yconnection_relex(a[1], a[2], a[3])
    [] name = "yconnection_loop" -> yconnection_loop(a[1], a[2], a[3])
    [] name = "yconnection" -> yconnection(a[1])
    [] name = "yelementclass" -> yelementclass(a[1])
    [] name = "ytunnel" -> ytunnel(a[1])
    [] name = "ycompound_arguments" -> ycompound_arguments(a[1], a[2])
    [] name = "ycompound_bodies" -> ycompound_bodies(a[1], a[2], a[3], a[4], a[5])
    [] name = "ycompound_body_end" ->
         ycompound_body_end(a[1], a[2], a[3], a[4], a[5])
    [] name = "ycompound_end" -> ycompound_end(a[1], a[2], a[3], a[4])
    [] name = "ycompound" -> ycompound(a[1], a[2])
    [] name = "yrequire_words" -> yrequire_words(a[1], a[2], a[3])
    [] name = "yrequire" -> yrequire(a[1])
    [] name = "ystatement" -> ystatement(a[1], a[2])
    [] name = "ystatements" -> ystatements(a[1])
    [] name = "expand_into_elements" -> expand_into_elements(a[1], a[2], a[3], a[4], a[5], a[6])
    [] name = "expand_into_hookups" -> expand_into_hookups(a[1], a[2], a[3], a[4])
    [] name = "expand_into" -> expand_into(a[1], a[2], a[3], a[4])
    [] name = "expand_with" -> expand_with(a[1], a[2], a[3], a[4], a[5])
    [] name = "expand_in_environment" -> expand_in_environment(a[1], a[2], a[3], a[4], a[5])
    [] name = "expand_found" -> expand_found(a[1], a[2], a[3], a[4], a[5], a[6])
    [] name = "select_class" -> select_class(a[1], a[2], a[3], a[4], a[5], a[6])
    [] name = "expand_compound_element" -> expand_compound_element(a[1], a[2])
    [] name = "unused_error" -> unused_error(a[1], a[2])
    [] name = "TunnelEnd_expand" -> TunnelEnd_expand(a[1], a[2])
    [] name = "expand_connections" -> expand_connections(a[1], a[2], a[3], a[4])
    [] name = "expand_connection" -> expand_connection(a[1], a[2], a[3])
    [] name = "add_router_connections_to" -> add_router_connections_to(a[1], a[2], a[3], a[4], a[5], a[6])
    [] name = "add_router_connections_from" -> add_router_connections_from(a[1], a[2], a[3], a[4], a[5])
    [] name = "add_router_connections" -> add_router_connections(a[1], a[2], a[3])
    [] name = "expand_compounds" -> expand_compounds(a[1], a[2])
    [] name = "add_elements" -> add_elements(a[1], a[2], a[3])
    [] name = "add_connections" -> add_connections(a[1], a[2], a[3])
    [] name = "create_router" -> create_router(a[1])
    [] name = "begin_parse" -> begin_parse(a[1], a[2])
    [] name = "end_parse" -> end_parse(a[1], a[2])

-----------------------------------------------------------------------------
(* The registry as a checkpoint sees it *)

RECURSIVE scope_chain(_, _)
\* the slots from t on along next_in_scope, newest first
scope_chain(next, t) ==
  IF t < 0 THEN << >> ELSE << t >> \o scope_chain(next, At(next, t))

Registry(s) ==
  [ chain |-> scope_chain(s.element_type_next, s.last_element_type),
    names |-> [i \in 1..Len(scope_chain(s.element_type_next, s.last_element_type))
                 |-> At(s.element_type_names,
                        scope_chain(s.element_type_next, s.last_element_type)[i])],
    map |-> s.element_type_map ]

-----------------------------------------------------------------------------
(* Bounds of the model *)

MaxPrimitives == 1      \* classes the driver registers before parsing
MaxStatements == 3      \* statements in a source text
MaxCheckpoints == 1     \* checkpoints the driver takes while parsing
MaxChain == 3           \* compounds on an overload chain given to find_relevant_class
MaxArity == 1           \* ninputs, noutputs, nformals of those compounds

\* what an uninitialised int or an out-of-bounds vector read may yield:
\* a negative value or a non-negative one
UninitValues == { -1, 0 }

-----------------------------------------------------------------------------
(* The state after Lexer::Lexer *)

Blank ==
  [ data |-> << >>, tcircle |-> [i \in 0..(TCIRCLE_SIZE - 1) |-> LexEOF],
    tpos |-> 0, tfull |-> 0,
    element_types |-> << >>, element_type_names |-> << >>,
    element_type_next |-> << >>, element_type_map |-> EmptyMap,
    last_element_type |-> -1, free_element_type |-> -1, heap |-> << >>,
    elements |-> << >>, element_names |-> << >>,
    element_configurations |-> << >>, element_map |-> EmptyMap,
    hookup_from |-> << >>, hookup_to |-> << >>, tunnel_ends |-> << >>,
    definputs |-> 0, defoutputs |-> 0, anonymous_offset |-> 0,
    compound_depth |-> 0, requirements |-> << >>, errors |-> << >>,
    aborted |-> FALSE, environment_map |-> << >>, environments |-> << >>,
    router |-> NoRouter, ret |-> 0, uninit |-> 0 ]

Constructed ==
  LET a == New(Call("end_parse", << Blank, -1 >>), ErrorElement)
      b == Call("add_element_type", << a, Str("<tunnel>"), a.ret >>)
      c == New(b, ErrorElement)
      d == Call("add_element_type", << c, << >>, c.ret >>)
  IN [d EXCEPT !.aborted = element_type(d, Str("<tunnel>")) # TUNNEL_TYPE
                           \/ element_type(d, Str("Error")) # ERROR_TYPE]

StartsAs(s) ==
  /\ data = s.data /\ tcircle = s.tcircle /\ tpos = s.tpos /\ tfull = s.tfull
  /\ element_types = s.element_types
  /\ element_type_names = s.element_type_names
  /\ element_type_next = s.element_type_next
  /\ element_type_map = s.element_type_map
  /\ last_element_type = s.last_element_type
  /\ free_element_type = s.free_element_type /\ heap = s.heap
  /\ elements = s.elements /\ element_names = s.element_names
  /\ element_configurations = s.element_configurations
  /\ element_map = s.element_map /\ hookup_from = s.hookup_from
  /\ hookup_to = s.hookup_to /\ tunnel_ends = s.tunnel_ends
  /\ definputs = s.definputs /\ defoutputs = s.defoutputs
  /\ anonymous_offset = s.anonymous_offset
  /\ compound_depth = s.compound_depth
  /\ requirements = s.requirements /\ errors = s.errors
  /\ aborted = s.aborted /\ router = s.router

NoProbe == [kind |-> "none"]

Init ==
  /\ StartsAs(Constructed)
  /\ phase = "idle" /\ cookies = << >> /\ probe = NoProbe

-----------------------------------------------------------------------------
(* What the driver does with a Lexer *)

PrimitiveNames == { Str("Id") }

CurRegistry == Registry(Cur(0))

Checkpoint(c) == [cookie |-> c, registry |-> CurRegistry]

\* add_element_type(e) for a primitive class, before parsing
AddElementType(name) ==
  /\ phase = "idle"
  /\ Len(heap) < 2 + MaxPrimitives
  /\ \E n \in { New(Cur(0), PrimitiveElement(name)) } :
       \E r \in { Call("add_element_type", << n, << >>, n.ret >>) } :
         Becomes(r)
  /\ UNCHANGED << phase, cookies, probe >>

BeginParse(text) ==
  /\ phase = "idle"
  /\ \E r \in { Call("begin_parse", << Cur(0), text >>) } :
       Becomes(r) /\ cookies' = << Checkpoint(r.ret) >>
  /\ phase' = "parsing"
  /\ UNCHANGED probe

\* one call of ystatement() in the driver's while (lexer->ystatement()) loop
Ystatement ==
  /\ phase = "parsing"
  /\ \E u \in UninitValues :
       \E r \in { Call("ystatement", << Cur(u), FALSE >>) } :
         Becomes(r) /\ phase' = IF r.ret THEN "parsing" ELSE "parsed"
  /\ UNCHANGED << cookies, probe >>

CreateRouter ==
  /\ phase = "parsed"
  /\ \E u \in UninitValues :
       \E r \in { Call("create_router", << Cur(u) >>) } : Becomes(r)
  /\ phase' = "built"
  /\ UNCHANGED << cookies, probe >>

\* lexical_scoping_in() between two statements: the driver keeps the cookie
LexicalScopingIn ==
  /\ phase = "parsing"
  /\ Len(cookies) < 1 + MaxCheckpoints
  /\ cookies' = << Checkpoint(lexical_scoping_in(Cur(0))) >> \o cookies
  /\ UNCHANGED << data, tcircle, tpos, tfull, element_types,
                  element_type_names, element_type_next, element_type_map,
                  last_element_type, free_element_type, heap, elements,
                  element_names, element_configurations, element_map,
                  hookup_from, hookup_to, tunnel_ends, definputs, defoutputs,
                  anonymous_offset, compound_depth, requirements, errors,
                  aborted, router, phase, probe >>

\* lexical_scoping_out(cookie) with the newest cookie the driver holds
LexicalScopingOut ==
  /\ phase = "parsing"
  /\ Len(cookies) > 1
  /\ \E r \in { Call("lexical_scoping_out",
                       << Cur(0), Head(cookies).cookie >>) } : Becomes(r)
  /\ cookies' = Tail(cookies)
  /\ UNCHANGED << phase, probe >>

\* end_parse(cookie) with the cookie begin_parse returned
EndParse ==
  /\ phase \in {"parsed", "built"}
  /\ \E r \in { Call("end_parse", << Cur(0), Last(cookies).cookie >>) } :
       Becomes(r)
  /\ phase' = "ended" /\ cookies' = << >>
  /\ UNCHANGED probe

-----------------------------------------------------------------------------
(* Source texts *)

I(a) == Ident(Str(a))
P(k) == Punct(k)

RECURSIVE Flatten(_)
Flatten(ss) == IF ss = << >> THEN << >> ELSE Head(ss) \o Flatten(Tail(ss))

\* the texts made of at most n statements of a menu
Texts(menu, n) == { Flatten(ss) : ss \in UNION { [1..k -> menu] : k \in 0..n } }

-----------------------------------------------------------------------------
(* Configurations with declarations, connections, tunnels and one compound *)

Statements ==
  { << I("a"), P("::"), I("Id"), P(";") >>,
    << I("Id"), P("->"), I("b"), P("::"), P(";") >>,
    << P("connectiontunnel"), I("a"), P("->"), I("b"), P(";") >>,
    << I("Id"), P("->"), P("["), I("1"), P("]"), I("a"), P(";") >>,
    << I("b"), P("["), I("1"), P("]"), P("->"), I("Id"), P(";") >>,
    << P("elementclass"), I("C"), P("{"),
       I("input"), P("->"), I("Id"), P("->"), I("output"), P("}") >>,
    << I("Id"), P("->"), I("C"), P("->"), I("Id"), P(";") >> }

Programs == Texts(Statements, MaxStatements)

Next ==
  \/ \E name \in PrimitiveNames : AddElementType(name)
  \/ \E text \in Programs : BeginParse(text)
  \/ Ystatement
  \/ CreateRouter
  \/ EndParse

Spec == Init /\ [][Next]_vars

-----------------------------------------------------------------------------
(* Properties of the element list, the connections and the tunnel ends *)

InRange(h, n) == h.idx >= 0 /\ h.idx < n

Distinct(names) ==
  \A i, j \in 1..Len(names) : i # j => names[i] # names[j]

Compounds == { e \in 1..Len(heap) : heap[e].kind = "Compound" }

\* C1: every connection given to the Router has both endpoints mapped from
\* lexer elements whose type is not the Tunnel type, and neither router id
\* is -1.
EmittedConnectionsAvoidTunnels ==
  phase = "built" =>
    \A k \in 1..Len(router.connections) :
      LET c == router.connections[k]
      IN /\ c.from.idx >= 0 /\ c.to.idx >= 0
         /\ InRange(c.hookup_from, Len(elements))
         /\ InRange(c.hookup_to, Len(elements))
         /\ At(elements, c.hookup_from.idx) # TUNNEL_TYPE
         /\ At(elements, c.hookup_to.idx) # TUNNEL_TYPE

\* C7: the element names of the current scope, of every compound body and of
\* the elements given to the Router are pairwise distinct.
ElementNamesUnique ==
  /\ Distinct(element_names)
  /\ \A e \in Compounds : Distinct(heap[e].element_names)
  /\ Distinct([k \in 1..Len(router.elements) |-> router.elements[k].name])

\* a compound element was expanded: get_element was asked for the prefixed
\* names of the body's elements, among them the existing name of the element
ElementNamesUniqueWitness ==
  /\ phase = "built"
  /\ \E k \in 1..Len(router.expansions) : router.expansions[k].found # 0
  /\ Len(router.elements) >= 3

\* the next statement is `name :: class ;' with name an element of the scope
RedeclarationAhead ==
  /\ phase = "parsing" /\ tpos = tfull /\ Len(data) >= 4
  /\ data[1].kind = "ident" /\ data[2].kind = "::"
  /\ data[3].kind = "ident" /\ data[4].kind = ";"
  /\ MapGet(element_map, data[1].string) >= 0
  /\ MapGet(element_type_map, data[1].string) < 0
  /\ MapGet(element_type_map, data[3].string) >= 0

Reported(log, msg, name) ==
  Cardinality({ k \in 1..Len(log) : log[k] = << msg, name >> })

\* C8: parsing `a :: Id' where a is already an element of the scope reports
\* exactly one "redeclaration of element a" error, no other error, and leaves
\* the element list unchanged.
RedeclarationAddsNothing ==
  [][ RedeclarationAhead /\ data' # data =>
        /\ elements' = elements /\ element_names' = element_names
        /\ Len(errors') > Len(errors)
        /\ Reported(errors', "redeclaration of element", data[1].string)
             = Reported(errors, "redeclaration of element", data[1].string) + 1
        /\ \A k \in (Len(errors) + 1)..Len(errors') :
             errors'[k][1] \in { "redeclaration of element",
                                 "previously declared here" } ]_vars

\* C9: every stored connection, of the current scope and of every compound
\* body, has both element indices in 0 .. n-1 for n the number of elements of
\* its scope.
HookupsInRange ==
  /\ \A k \in 1..Len(hookup_from) :
       InRange(hookup_from[k], Len(elements)) /\ InRange(hookup_to[k], Len(elements))
  /\ \A e \in Compounds :
       \A k \in 1..Len(heap[e].hookup_from) :
         /\ InRange(heap[e].hookup_from[k], Len(heap[e].elements))
         /\ InRange(heap[e].hookup_to[k], Len(heap[e].elements))

RECURSIVE ListFrom(_)
\* the tunnel ends on the list that starts at d
ListFrom(d) == IF d = 0 THEN {} ELSE {d} \cup ListFrom(tunnel_ends[d].next)

\* C10: every tunnel end has a partner, the partner's partner is the end
\* itself, the two are on opposite lists and carry the same port number, and
\* no list holds two ends for the same (element, port).
TunnelEndsPaired ==
  /\ \A e \in 1..Len(tunnel_ends) :
       LET o == tunnel_ends[e].other
       IN /\ o \in 1..Len(tunnel_ends)
          /\ tunnel_ends[o].other = e
          /\ tunnel_ends[o].port.port = tunnel_ends[e].port.port
          /\ tunnel_ends[o].output # tunnel_ends[e].output
          /\ e \in ListFrom(IF tunnel_ends[e].output THEN defoutputs
                            ELSE definputs)
          /\ o \in ListFrom(IF tunnel_ends[e].output THEN definputs
                            ELSE defoutputs)
  /\ \A e, f \in ListFrom(definputs) :
       e # f => tunnel_ends[e].port # tunnel_ends[f].port
  /\ \A e, f \in ListFrom(defoutputs) :
       e # f => tunnel_ends[e].port # tunnel_ends[f].port

\* TunnelEnd::find has allocated a pair for a port the tunnel was not declared
\* with
TunnelEndsPairedWitness ==
  /\ phase = "built"
  /\ \E e \in 1..Len(tunnel_ends) :
       tunnel_ends[e].port.port = 1 /\ tunnel_ends[tunnel_ends[e].other].port.port = 1

-----------------------------------------------------------------------------
(* Configurations that declare compound classes, some of them twice, some  *)
(* with a class declared inside a body                                      *)

PassThrough == << I("input"), P("->"), I("output") >>
Source == << I("Id"), P("->"), I("output") >>
InnerX == << P("elementclass"), I("X"), P("{") >> \o PassThrough \o << P("}") >>

ClassStatements ==
  { << P("elementclass"), I("C"), P("{") >> \o PassThrough \o << P("}") >>,
    << P("elementclass"), I("C"), P("{") >> \o Source \o << P("}") >>,
    << P("elementclass"), I("C"), P("{"), P("..."), P("||") >> \o Source
      \o << P("}") >>,
    << P("elementclass"), I("C"), P("{") >> \o InnerX
      \o << I("input"), P("->"), I("X"), P("->"), I("output"), P("||") >>
      \o Source \o << P("}") >>,
    << P("elementclass"), I("D"), P("{") >> \o InnerX
      \o << I("input"), P("->"), I("X"), P("->"), I("output"), P("}") >>,
    InnerX,
    << I("Id"), P("->"), I("C"), P("->"), I("Id"), P(";") >>,
    << I("C"), P("->"), I("Id"), P(";") >> }

ClassPrograms == Texts(ClassStatements, MaxStatements)

NextScopes ==
  \/ \E name \in PrimitiveNames : AddElementType(name)
  \/ \E text \in ClassPrograms : BeginParse(text)
  \/ Ystatement
  \/ CreateRouter
  \/ EndParse

SpecScopes == Init /\ [][NextScopes]_vars

\* the driver takes a checkpoint between two statements and restores it later
NextCheckpoints ==
  \/ \E name \in PrimitiveNames : AddElementType(name)
  \/ \E text \in ClassPrograms : BeginParse(text)
  \/ Ystatement
  \/ LexicalScopingIn
  \/ LexicalScopingOut
  \/ EndParse

SpecCheckpoints == Init /\ [][NextCheckpoints]_vars

-----------------------------------------------------------------------------
(* Properties of the class registry *)

Signature(o) == << o.ninputs, o.noutputs, Len(o.formals) >>

\* the next statement is `elementclass name { ...'
CompoundAhead ==
  /\ phase = "parsing" /\ tpos = tfull /\ Len(data) >= 4
  /\ data[1].kind = "elementclass" /\ data[2].kind = "ident"
  /\ data[3].kind = "{"

\* ... and name is bound to a compound, and the body does not start with `...'
SecondDeclarationAhead ==
  /\ CompoundAhead
  /\ data[4].kind # "..."
  /\ MapGet(element_type_map, data[2].string) >= 0
  /\ heap[At(element_types, MapGet(element_type_map, data[2].string))].kind
       = "Compound"

\* the records a statement has created
Created(before, after) == (1..Len(after)) \ (1..Len(before))

\* the earlier body has a signature none of the bodies of the statement has
EarlierBodyDiffers(old) ==
  \A e \in Created(heap, heap') :
    heap'[e].kind = "Compound" /\ heap'[e].name = heap[old].name
      => Signature(heap'[e]) # Signature(heap[old])

\* C3 as stated: after `elementclass C' is declared a second time as a
\* separate statement without `... ||', with a body of another signature, a
\* use of C that matches the earlier body selects the earlier body.
BothBodiesSurvive ==
  [][ SecondDeclarationAhead /\ data' # data =>
        LET name == data[2].string
            old == At(element_types, MapGet(element_type_map, name))
            new == At(element_types', MapGet(element_type_map', name))
        IN EarlierBodyDiffers(old) =>
             find_relevant_class(heap', new, heap[old].ninputs,
                                 heap[old].noutputs, Len(heap[old].formals))
               = old ]_vars

\* C3 amended: after `elementclass C' is declared a second time as a separate
\* statement without `... ||', only the bodies of the later statement are on
\* the chain of C: a use that matches the newest body selects it, and a use
\* that matches only the earlier body selects nothing (the element then gets
\* "no match" and the error class).
LaterDeclarationShadows ==
  [][ SecondDeclarationAhead /\ data' # data =>
        LET name == data[2].string
            old == At(element_types, MapGet(element_type_map, name))
            new == At(element_types', MapGet(element_type_map', name))
        IN /\ new \in Created(heap, heap')
           /\ heap'[new].kind = "Compound"
           /\ find_relevant_class(heap', new, heap'[new].ninputs,
                                  heap'[new].noutputs, Len(heap'[new].formals))
                = new
           /\ EarlierBodyDiffers(old) =>
                find_relevant_class(heap', new, heap[old].ninputs,
                                    heap[old].noutputs, Len(heap[old].formals))
                  = 0 ]_vars

\* the slots of the scope chain whose record is a compound named name
CompoundSlots(name) ==
  { t \in 0..(Len(element_types) - 1) :
      /\ At(element_type_names, t) = name
      /\ At(element_types, t) # 0
      /\ heap[At(element_types, t)].kind = "Compound" }

\* C was declared twice, the newer record is not linked to the older one, and
\* an element of class C whose use matches the older body got no match
LaterDeclarationShadowsWitness ==
  /\ phase = "built"
  /\ \E k \in 1..Len(router.expansions) :
       LET x == router.expansions[k]
       IN /\ x.class # 0 /\ x.found = 0
          /\ heap[x.class].next = 0
          /\ At(elements, x.which) = ERROR_TYPE
          /\ \E t \in CompoundSlots(heap[x.class].name) :
               /\ At(element_types, t) # x.class
               /\ Signature(heap[At(element_types, t)])
                    = << x.ninputs, x.noutputs, x.nargs >>

\* C4: lexical_scoping_out(c) leaves the scope chain, the names of its slots
\* and the class-name map as they were when lexical_scoping_in() returned c.
CheckpointRoundTrip ==
  [][ Len(cookies') < Len(cookies) =>
        CurRegistry' = cookies[Len(cookies) - Len(cookies')].registry ]_vars

\* C5: when ycompound returns, the class-name map of the enclosing scope is
\* the map at entry plus the binding of the compound's own name, whatever the
\* number of `||' bodies.
BodyExitRestoresClassMap ==
  [][ CompoundAhead /\ data' # data =>
        /\ \A n \in (DOMAIN element_type_map \cup DOMAIN element_type_map')
                      \ { data[2].string } :
             MapGet(element_type_map', n) = MapGet(element_type_map, n)
        /\ MapGet(element_type_map', data[2].string) = last_element_type'
        /\ heap'[At(element_types', last_element_type')].kind = "Compound"
     ]_vars

ClassNames ==
  (DOMAIN element_type_map
     \cup { element_type_names[i] : i \in 1..Len(element_type_names) })
    \ { << >> }

\* C6: for every class name, the name map holds the first slot with that name
\* on the next_in_scope chain from last_element_type, or -1 if there is none.
NameMapPointsAtNewest ==
  \A n \in ClassNames :
    MapGet(element_type_map, n)
      = scope_same_name(element_type_next, element_type_names, n,
                        last_element_type)

-----------------------------------------------------------------------------
(* find_relevant_class on overload chains *)

Arities == 0..MaxArity
Signatures == Arities \X Arities \X Arities

\* how a chain ends: _next null, an ErrorElement, or a Synonym of a primitive
ChainEnds == { "null", "error", "synonym" }

Chains == UNION { [1..n -> Signatures] : n \in 1..MaxChain }

Formals(n) == [k \in 1..n |-> << "$", ToString(k) >>]

ChainEnd(tail) ==
  IF tail = "null" THEN << >>
  ELSE IF tail = "error" THEN << ErrorElement >>
  ELSE << PrimitiveElement(Str("Id")), Synonym(1) >>

RECURSIVE ChainHeap(_, _, _, _)
\* the records of a chain, oldest first; chain[1] is the newest compound and
\* is named "1".  With via_synonym the newest compound reaches the next one
\* through a Synonym of it.
ChainHeap(chain, tail, via_synonym, i) ==
  IF i > Len(chain) THEN ChainEnd(tail)
  ELSE LET below == ChainHeap(chain, tail, via_synonym, i + 1)
           linked == IF via_synonym /\ i = 1 /\ Len(chain) > 1
                     THEN Append(below, Synonym(Len(below)))
                     ELSE below
       IN Append(linked,
                 [ Compound(Str(ToString(i)), 0, Len(linked)) EXCEPT
                     !.ninputs = chain[i][1], !.noutputs = chain[i][2],
                     !.formals = Formals(chain[i][3]) ])

InitFind ==
  /\ StartsAs(Blank) /\ phase = "idle" /\ cookies = << >>
  /\ probe \in [ kind : {"chain"}, chain : Chains, tail : ChainEnds,
                 via_synonym : BOOLEAN, use : Signatures, result : {0} ]

\* find_relevant_class on the newest compound of the chain
FindRelevantClass ==
  /\ probe.kind = "chain"
  /\ LET h == ChainHeap(probe.chain, probe.tail, probe.via_synonym, 1)
     IN /\ heap' = h
        /\ probe' = [probe EXCEPT
                       !.kind = "found",
                       !.result = find_relevant_class(h, Len(h), probe.use[1],
                                                      probe.use[2], probe.use[3])]
  /\ UNCHANGED << data, tcircle, tpos, tfull, element_types,
                  element_type_names, element_type_next, element_type_map,
                  last_element_type, free_element_type, elements,
                  element_names, element_configurations, element_map,
                  hookup_from, hookup_to, tunnel_ends, definputs, defoutputs,
                  anonymous_offset, compound_depth, requirements, errors,
                  aborted, router, phase, cookies >>

SpecFind == InitFind /\ [][FindRelevantClass]_vars

Matching == { i \in 1..Len(probe.chain) : probe.chain[i] = probe.use }

\* C2: find_relevant_class returns the newest compound of the chain whose
\* (ninputs, noutputs, number of formals) equals the use; if no compound
\* matches, the non-compound record that ends the chain when there is one,
\* and null otherwise.
FindReturnsNewestMatch ==
  probe.kind = "found" =>
    IF Matching # {}
    THEN /\ probe.result # 0
         /\ heap[probe.result].kind = "Compound"
         /\ heap[probe.result].name
              = Str(ToString(CHOOSE i \in Matching : \A j \in Matching : i <= j))
    ELSE IF probe.tail = "null" THEN probe.result = 0
    ELSE /\ probe.result = Len(ChainEnd(probe.tail))
         /\ heap[probe.result].kind # "Compound"

\* two compounds of the chain match and the newer one is not the head
FindReturnsNewestMatchWitness ==
  /\ probe.kind = "found"
  /\ Cardinality(Matching) >= 2
  /\ 1 \notin Matching
  /\ probe.result # 0


-----------------------------------------------------------------------------
(* Configurations with one free-standing tunnel, used in all directions     *)

MaxTunnelStatements == 4

TunnelStatements ==
  { << P("connectiontunnel"), I("a"), P("->"), I("b"), P(";") >>,
    << I("Id"), P("->"), I("a"), P(";") >>,
    << I("b"), P("->"), I("Id"), P(";") >>,
    << I("b"), P("->"), I("a"), P(";") >>,
    << I("Id"), P("->"), P("["), I("1"), P("]"), I("a"), P(";") >>,
    << I("b"), P("["), I("1"), P("]"), P("->"), I("Id"), P(";") >> }

TunnelPrograms == Texts(TunnelStatements, MaxTunnelStatements)

NextTunnels ==
  \/ \E name \in PrimitiveNames : AddElementType(name)
  \/ \E text \in TunnelPrograms : BeginParse(text)
  \/ Ystatement
  \/ CreateRouter
  \/ EndParse

SpecTunnels == Init /\ [][NextTunnels]_vars

-----------------------------------------------------------------------------
(* Properties of tunnel expansion *)

Fresh == 0
Expanding == 1
Done == 2

Expands == router.expands

\* C11: over the calls and returns of TunnelEnd::expand of one create_router,
\* no tunnel end ever moves backwards in Fresh -> Expanding -> Done; a call on
\* an Expanding end returns at once, appends nothing and changes neither the
\* tunnel ends nor the errors; a call on a Done end returns at once and
\* appends the cached list; the cached list of a Done end never changes; and
\* no end is left Expanding when create_router is over.
ExpansionStateOnlyAdvances ==
  /\ \A i, j \in 1..Len(Expands) :
       i < j =>
         \A d \in 1..Len(Expands[i].tunnel_ends) :
           LET before == Expands[i].tunnel_ends[d]
               after == Expands[j].tunnel_ends[d]
           IN /\ before.expanded <= after.expanded
              /\ before.expanded = Done => after.correspond = before.correspond
  /\ \A i \in 1..Len(Expands) :
       LET c == Expands[i]
           was == c.tunnel_ends[c.end]
       IN c.op = "call" /\ was.expanded # Fresh =>
            /\ i < Len(Expands)
            /\ Expands[i + 1].op = "return" /\ Expands[i + 1].end = c.end
            /\ Expands[i + 1].tunnel_ends = c.tunnel_ends
            /\ Expands[i + 1].errors = c.errors
            /\ Expands[i + 1].appended =
                 IF was.expanded = Expanding THEN << >> ELSE was.correspond
  /\ \A i \in 1..Len(Expands) :
       Expands[i].op = "return" =>
         Expands[i].tunnel_ends[Expands[i].end].expanded \in {Expanding, Done}
  /\ phase = "built" =>
       /\ \A d \in 1..Len(tunnel_ends) : tunnel_ends[d].expanded # Expanding
       /\ Expands # << >> =>
            \A d \in 1..Len(Expands[Len(Expands)].tunnel_ends) :
              LET last == Expands[Len(Expands)].tunnel_ends[d]
              IN /\ last.expanded <= tunnel_ends[d].expanded
                 /\ last.expanded = Done
                      => tunnel_ends[d].correspond = last.correspond

\* expand was called on an end that was Expanding (a tunnel that feeds
\* itself) and on an end that was Done with a list that is not empty
ExpansionStateOnlyAdvancesWitness ==
  /\ phase = "built"
  /\ \E i \in 1..Len(Expands) :
       /\ Expands[i].op = "call"
       /\ Expands[i].tunnel_ends[Expands[i].end].expanded = Expanding
  /\ \E i \in 1..Len(Expands) :
       /\ Expands[i].op = "call"
       /\ Expands[i].tunnel_ends[Expands[i].end].expanded = Done
       /\ Expands[i].tunnel_ends[Expands[i].end].correspond # << >>


\* the lexer elements that are tunnels
Tunnels == { i \in 0..(Len(elements) - 1) : At(elements, i) = TUNNEL_TYPE }

\* the declared tunnels as pairs << input element, output element >>
DeclaredTunnels ==
  { << tunnel_ends[e].port.idx, tunnel_ends[tunnel_ends[e].other].port.idx >> :
      e \in { d \in 1..Len(tunnel_ends) : ~tunnel_ends[d].output } }

Hookups == 1..Len(hookup_from)

\* every connection has an element at both ends and none joins two tunnels
TunnelsAreFreeStanding ==
  \A k \in Hookups :
    /\ InRange(hookup_from[k], Len(elements))
    /\ InRange(hookup_to[k], Len(elements))
    /\ ~(hookup_from[k].idx \in Tunnels /\ hookup_to[k].idx \in Tunnels)
    /\ hookup_from[k].idx \in Tunnels
         => \E t \in DeclaredTunnels : t[2] = hookup_from[k].idx
    /\ hookup_to[k].idx \in Tunnels
         => \E t \in DeclaredTunnels : t[1] = hookup_to[k].idx

\* S x D of every tunnel, port by port
ThroughTunnels ==
  { << hookup_from[k[1]], hookup_to[k[2]] >> : k \in
      { kk \in Hookups \X Hookups :
          /\ << hookup_to[kk[1]].idx, hookup_from[kk[2]].idx >> \in DeclaredTunnels
          /\ hookup_to[kk[1]].port = hookup_from[kk[2]].port } }

Direct ==
  { << hookup_from[k], hookup_to[k] >> : k \in
      { kk \in Hookups : /\ hookup_from[kk].idx \notin Tunnels
                         /\ hookup_to[kk].idx \notin Tunnels } }

\* the router id create_router gives lexer element i
RouterId(i) == Cardinality({ j \in 0..(i - 1) : j \notin Tunnels })

Emitted ==
  { << router.connections[k].hookup_from, router.connections[k].hookup_to >> :
      k \in 1..Len(router.connections) }


(* C12: for a free-standing tunnel whose input side receives connections from
   the set S of non-tunnel output ports and whose output side feeds the set D
   of non-tunnel input ports, the connections emitted through the tunnel are
   exactly S x D, with the original port numbers, and nothing else is emitted
   for them *)
TunnelEmitsCrossProduct ==
  (phase = "built" /\ TunnelsAreFreeStanding) =>
    /\ Emitted = Direct \cup ThroughTunnels
    /\ \A k \in 1..Len(router.connections) :
         LET c == router.connections[k]
         IN /\ c.from = Hookup(RouterId(c.hookup_from.idx), c.hookup_from.port)
            /\ c.to = Hookup(RouterId(c.hookup_to.idx), c.hookup_to.port)

TunnelEmitsCrossProductWitness ==
  /\ phase = "built" /\ TunnelsAreFreeStanding
  /\ Cardinality(ThroughTunnels) >= 2
  /\ \E k \in Hookups : /\ hookup_to[k].idx \in Tunnels /\ hookup_to[k].port = 1
                       /\ \E x \in ThroughTunnels : x[1] = hookup_from[k]
  /\ ThroughTunnels \subseteq Emitted


-----------------------------------------------------------------------------
(* The pushback ring driven directly: lex() and unlex(t) in any order *)

MaxRingText == 1
MaxPending == 2
MaxCalls == 9

RingLexemes == { I("a"), P(";") }
RingTexts == Texts({ << t >> : t \in RingLexemes }, MaxRingText)

\* the lexemes lex() will return before it reads the source again
Pending == (tfull - tpos + TCIRCLE_SIZE) % TCIRCLE_SIZE

\* how many calls of lex() and unlex() the driver has made
Calls == IF probe = NoProbe THEN 0 ELSE probe.calls

Lex ==
  /\ phase = "parsing"
  /\ Calls < MaxCalls
  /\ \E r \in { Call("lex", << Cur(0) >>) } :
       /\ Becomes(r)
       /\ probe' = [ kind |-> "lex", ret |-> r.ret,
                     read |-> r.data # data \/ tpos = tfull,
                     unlexed |-> IF probe.kind = "unlex" THEN << probe.t >>
                                 ELSE << >>,
                     pending |-> Pending, calls |-> Calls + 1 ]
  /\ UNCHANGED << phase, cookies >>

Unlex(t) ==
  /\ phase = "parsing"
  /\ Calls < MaxCalls
  /\ Pending < MaxPending
  /\ \E r \in { unlex(Cur(0), t) } : Becomes(r)
  /\ probe' = [ kind |-> "unlex", t |-> t, pending |-> Pending,
                calls |-> Calls + 1 ]
  /\ UNCHANGED << phase, cookies >>

NextRing ==
  \/ \E text \in RingTexts : BeginParse(text)
  \/ Lex
  \/ \E t \in RingLexemes : Unlex(t)

SpecRing == Init /\ [][NextRing]_vars

(* C13: immediately after unlex(t) the next lex() returns t and reads no new
   lexeme from the source text, whatever pushed-back lexemes were pending *)
PushbackRoundTrip ==
  (probe.kind = "lex" /\ probe.unlexed # << >>) =>
    (probe.ret = probe.unlexed[1] /\ ~probe.read)


-----------------------------------------------------------------------------
(* Compound::finish on any list of body connections *)

MaxBodyHookups == 2
MaxBodyPort == 2
\* elements 0 (input), 1 (output) and one more element of the body
MaxBodyElement == 2

BodyPorts ==
  { Hookup(i, p) : i \in 0..MaxBodyElement, p \in 0..MaxBodyPort }
BodyConnections ==
  UNION { [1..k -> BodyPorts \X BodyPorts] : k \in 0..MaxBodyHookups }

BodyName == Str("C")

\* the class record of a body as ycompound leaves it before finish
Body(connections) ==
  [ Compound(BodyName, 0, 0) EXCEPT
      !.elements = << TUNNEL_TYPE, TUNNEL_TYPE, ERROR_TYPE >>,
      !.element_names = << Str("input"), Str("output"), Str("x") >>,
      !.element_configurations = << << >>, << >>, << >> >>,
      !.hookup_from = [k \in 1..Len(connections) |-> connections[k][1]],
      !.hookup_to = [k \in 1..Len(connections) |-> connections[k][2]] ]

InitFinish ==
  /\ StartsAs(Blank) /\ phase = "idle" /\ cookies = << >>
  /\ probe \in [ kind : {"body"}, connections : BodyConnections ]

CompoundFinish ==
  /\ probe.kind = "body"
  /\ \E n \in { New(Cur(0), Body(probe.connections)) } :
       \E r \in { Call("finish", << n, n.ret >>) } : Becomes(r)
  /\ probe' = [probe EXCEPT !.kind = "finished"]
  /\ UNCHANGED << phase, cookies >>

SpecFinish == InitFinish /\ [][CompoundFinish]_vars

\* the ports of `input' used as a source and of `output' used as a sink
InputPorts ==
  { probe.connections[k][1].port : k \in
      { j \in 1..Len(probe.connections) : probe.connections[j][1].idx = 0 } }
OutputPorts ==
  { probe.connections[k][2].port : k \in
      { j \in 1..Len(probe.connections) : probe.connections[j][2].idx = 1 } }
InputIsSink == \E k \in 1..Len(probe.connections) : probe.connections[k][2].idx = 0
OutputIsSource == \E k \in 1..Len(probe.connections) : probe.connections[k][1].idx = 1

OnePast(ports) ==
  IF ports = {} THEN 0 ELSE 1 + CHOOSE p \in ports : \A q \in ports : q <= p

\* how many times error e was reported
UnusedPort(i) == BodyName \o Str(ToString(i))
One(b) == IF b THEN 1 ELSE 0

(* C14: Compound::finish sets ninputs to one past the highest port of `input'
   used as a source and noutputs to one past the highest port of `output'
   used as a sink (0 when none), reports one unused error for each port below
   the bound that is never used, and one error when `input' is used as a sink
   or `output' as a source *)
FinishCountsPorts ==
  probe.kind = "finished" =>
    /\ heap[1].ninputs = OnePast(InputPorts)
    /\ heap[1].noutputs = OnePast(OutputPorts)
    /\ \A i \in 0..MaxBodyPort + 1 :
         /\ Reported(errors, "compound element input unused", UnusedPort(i))
              = One(i < OnePast(InputPorts) /\ i \notin InputPorts)
         /\ Reported(errors, "compound element output unused", UnusedPort(i))
              = One(i < OnePast(OutputPorts) /\ i \notin OutputPorts)
    /\ Reported(errors, "pseudoelement `input' may only be used as output", BodyName)
         = One(InputIsSink)
    /\ Reported(errors, "pseudoelement `output' may only be used as input", BodyName)
         = One(OutputIsSource)
    /\ Len(errors)
         = One(InputIsSink) + One(OutputIsSource)
           + (OnePast(InputPorts) - Cardinality(InputPorts))
           + (OnePast(OutputPorts) - Cardinality(OutputPorts))
    /\ ~aborted

FinishCountsPortsWitness ==
  /\ probe.kind = "finished"
  /\ InputPorts = {0, 2} /\ heap[1].ninputs = 3
  /\ OutputPorts = {1} /\ InputIsSink
  /\ Len(errors) = 3


-----------------------------------------------------------------------------
(* Lexing: lowest level, character by character.  A scanner is the text   *)
(* with _pos and _lineno; pos counts from 0 as in the code.               *)

LF == "\n"
CR == "\r"

isspace(c) == c \in { " ", "\t", LF, CR, "\f" }
isalnum(c) == c \in { "a", "0" }

\* a character that can start a word; a character that can continue one
word_start(c) == isalnum(c) \/ c = "_" \/ c = "@"
word_part(c) == word_start(c) \/ c = "/"

RECURSIVE skip_line_scan(_, _)
\* the loop of skip_line: the position after the line's terminator, or -1
\* when the text ends first
skip_line_scan(text, pos) ==
  IF pos >= Len(text) THEN -1
  ELSE IF At(text, pos) = LF THEN pos + 1
  ELSE IF At(text, pos) = CR
  THEN IF pos < Len(text) - 1 /\ At(text, pos + 1) = LF THEN pos + 2 ELSE pos + 1
  ELSE skip_line_scan(text, pos + 1)

\* skip_line that counts the line however the comment ends
skip_line_counting(text, lineno, pos) ==
  LET r == skip_line_scan(text, pos)
  IN IF r = -1 THEN [pos |-> Len(text), lineno |-> lineno + 1]
     ELSE [pos |-> r, lineno |-> lineno + 1]

skip_line(text, lineno, pos) ==
  LET r == skip_line_scan(text, pos)
  IN IF r = -1 THEN [pos |-> Len(text), lineno |-> (lineno + 1) - 1]
     ELSE [pos |-> r, lineno |-> lineno + 1]

RECURSIVE skip_slash_star(_, _, _)
skip_slash_star(text, lineno, pos) ==
  IF pos >= Len(text) THEN [pos |-> Len(text), lineno |-> lineno]
  ELSE IF At(text, pos) = LF THEN skip_slash_star(text, lineno + 1, pos + 1)
  ELSE IF At(text, pos) = CR
  THEN IF pos < Len(text) - 1 /\ At(text, pos + 1) = LF
       THEN skip_slash_star(text, lineno + 1, pos + 2)
       ELSE skip_slash_star(text, lineno + 1, pos + 1)
  ELSE IF At(text, pos) = "*" /\ pos < Len(text) - 1 /\ At(text, pos + 1) = "/"
  THEN [pos |-> pos + 2, lineno |-> lineno]
  ELSE skip_slash_star(text, lineno, pos + 1)

RECURSIVE skip_space(_, _, _)
\* the isspace loop at the head of next_lexeme
skip_space(text, lineno, pos) ==
  IF ~(pos < Len(text) /\ isspace(At(text, pos)))
  THEN [pos |-> pos, lineno |-> lineno]
  ELSE IF At(text, pos) = LF THEN skip_space(text, lineno + 1, pos + 1)
  ELSE IF At(text, pos) = CR
  THEN IF pos < Len(text) - 1 /\ At(text, pos + 1) = LF
       THEN skip_space(text, lineno + 1, pos + 2)
       ELSE skip_space(text, lineno + 1, pos + 1)
  ELSE skip_space(text, lineno, pos + 1)

RECURSIVE skip_to_word(_, _, _)
\* the while (true) loop of next_lexeme on a text without # directives
skip_to_word(text, lineno, pos) ==
  LET w == skip_space(text, lineno, pos)
  IN IF w.pos >= Len(text) THEN [pos |-> Len(text), lineno |-> w.lineno]
     ELSE IF At(text, w.pos) = "/" /\ w.pos < Len(text) - 1
     THEN IF At(text, w.pos + 1) = "/"
          THEN LET r == skip_line(text, w.lineno, w.pos + 2)
               IN skip_to_word(text, r.lineno, r.pos)
          ELSE IF At(text, w.pos + 1) = "*"
          THEN LET r == skip_slash_star(text, w.lineno, w.pos + 2)
               IN skip_to_word(text, r.lineno, r.pos)
          ELSE w
     ELSE w

RECURSIVE word_end(_, _)
\* the loop that finds the length of the current word
word_end(text, pos) ==
  IF ~(pos < Len(text) /\ word_part(At(text, pos))) THEN pos
  ELSE IF At(text, pos) = "/" /\ pos < Len(text) - 1
          /\ At(text, pos + 1) \in { "/", "*" }
  THEN pos
  ELSE word_end(text, pos + 1)

RECURSIVE variable_end(_, _)
variable_end(text, pos) ==
  IF pos < Len(text) /\ (isalnum(At(text, pos)) \/ At(text, pos) = "_")
  THEN variable_end(text, pos + 1)
  ELSE pos

\* _pos after the lexeme that starts at pos
lexeme_end(text, pos) ==
  IF word_start(At(text, pos)) THEN word_end(text, pos + 1)
  ELSE IF At(text, pos) = "$" /\ variable_end(text, pos + 1) > pos + 1
  THEN variable_end(text, pos + 1)
  ELSE IF pos < Len(text) - 1
          /\ << At(text, pos), At(text, pos + 1) >>
               \in { << "-", ">" >>, << ":", ":" >>, << "|", "|" >> }
  THEN pos + 2
  ELSE IF pos < Len(text) - 2 /\ At(text, pos) = "." /\ At(text, pos + 1) = "."
          /\ At(text, pos + 2) = "."
  THEN pos + 3
  ELSE pos + 1

\* next_lexeme on the characters: what it leaves in _pos and _lineno
next_lexeme_at(text, lineno, pos) ==
  LET w == skip_to_word(text, lineno, pos)
  IN IF w.pos >= Len(text) THEN w
     ELSE [pos |-> lexeme_end(text, w.pos), lineno |-> w.lineno]

RECURSIVE lex_config_at(_, _, _, _, _)
\* the loop of lex_config on the characters; quote is "" outside a string
lex_config_at(text, lineno, pos, paren_depth, quote) ==
  IF pos >= Len(text) THEN [pos |-> pos, lineno |-> lineno]
  ELSE IF At(text, pos) = "(" /\ quote = ""
  THEN lex_config_at(text, lineno, pos + 1, paren_depth + 1, quote)
  ELSE IF At(text, pos) = ")" /\ quote = ""
  THEN IF paren_depth = 1 THEN [pos |-> pos, lineno |-> lineno]
       ELSE lex_config_at(text, lineno, pos + 1, paren_depth - 1, quote)
  ELSE IF At(text, pos) = LF
  THEN lex_config_at(text, lineno + 1, pos + 1, paren_depth, quote)
  ELSE IF At(text, pos) = CR
  THEN IF pos < Len(text) - 1 /\ At(text, pos + 1) = LF
       THEN lex_config_at(text, lineno + 1, pos + 2, paren_depth, quote)
       ELSE lex_config_at(text, lineno + 1, pos + 1, paren_depth, quote)
  ELSE IF At(text, pos) = "/" /\ pos < Len(text) - 1 /\ quote = ""
  THEN IF At(text, pos + 1) = "/"
       THEN LET r == skip_line(text, lineno, pos + 2)
            IN lex_config_at(text, r.lineno, r.pos, paren_depth, quote)
       ELSE IF At(text, pos + 1) = "*"
       THEN LET r == skip_slash_star(text, lineno, pos + 2)
            IN lex_config_at(text, r.lineno, r.pos, paren_depth, quote)
       ELSE lex_config_at(text, lineno, pos + 1, paren_depth, quote)
  ELSE IF At(text, pos) \in { "'", "\"" } /\ quote = ""
  THEN lex_config_at(text, lineno, pos + 1, paren_depth, At(text, pos))
  ELSE IF quote # "" /\ At(text, pos) = quote
  THEN lex_config_at(text, lineno, pos + 1, paren_depth, "")
  ELSE IF At(text, pos) = "\\" /\ pos < Len(text) - 1 /\ quote = "\""
          /\ At(text, pos + 1) \in { "\"", "$" }
  THEN lex_config_at(text, lineno, pos + 2, paren_depth, quote)
  ELSE lex_config_at(text, lineno, pos + 1, paren_depth, quote)

MaxChars == 5
Chars == { LF, CR, "/", "*", "a", "(", ")", "\"" }
CharTexts == UNION { [1..k -> Chars] : k \in 0..MaxChars }

\* begin_parse(text): _pos is 0 and _lineno is 1
InitScan ==
  /\ StartsAs(Blank) /\ phase = "idle" /\ cookies = << >>
  /\ probe \in [ kind : {"scan"}, text : CharTexts, pos : {0}, lineno : {1} ]

Scanned(r) ==
  /\ probe' = [probe EXCEPT !.pos = r.pos, !.lineno = r.lineno]
  /\ UNCHANGED << data, tcircle, tpos, tfull, element_types,
                  element_type_names, element_type_next, element_type_map,
                  last_element_type, free_element_type, heap, elements,
                  element_names, element_configurations, element_map,
                  hookup_from, hookup_to, tunnel_ends, definputs, defoutputs,
                  anonymous_offset, compound_depth, requirements, errors,
                  aborted, router, phase, cookies >>

NextLexeme ==
  /\ probe.pos < Len(probe.text)
  /\ Scanned(next_lexeme_at(probe.text, probe.lineno, probe.pos))

\* lex_config() as yelement and ycompound_arguments call it: after a `('
LexConfig ==
  /\ probe.pos > 0 /\ At(probe.text, probe.pos - 1) = "("
  /\ Scanned(lex_config_at(probe.text, probe.lineno, probe.pos, 1, ""))

NextScan == NextLexeme \/ LexConfig

SpecScan == InitScan /\ [][NextScan]_vars

\* the line terminators in the first n characters: every LF, and every CR
\* that no LF follows
Terminators(text, n) ==
  Cardinality({ i \in 1..n :
                  \/ text[i] = LF
                  \/ text[i] = CR /\ ~(i < Len(text) /\ text[i + 1] = LF) })

(* C15: after the scanner has consumed a prefix of a text without #
   directives, the line counter is 1 plus the number of line terminators in
   that prefix, each LF, each lone CR and each CR LF pair counting once,
   whether in whitespace, a // comment, a block comment or a configuration
   string *)
LineCounterCountsTerminators ==
  probe.kind = "scan" =>
    probe.lineno = 1 + Terminators(probe.text, probe.pos)

LineCounterCountsTerminatorsWitness ==
  /\ probe.kind = "scan"
  /\ probe.text = << "(", CR, LF, "/", "/" >>
  /\ probe.pos = 5 /\ probe.lineno = 2


-----------------------------------------------------------------------------
(* Termination of tunnel expansion, read off the log of calls and returns *)

\* the expansion state of end d at event i; an end not yet created is Fresh
StateAt(i, d) ==
  IF d > Len(Expands[i].tunnel_ends) THEN Fresh
  ELSE Expands[i].tunnel_ends[d].expanded

\* the calls of expand still running after event i
Running(i) ==
  Cardinality({ k \in 1..i : Expands[k].op = "call" })
    - Cardinality({ k \in 1..i : Expands[k].op = "return" })

(* C16: tunnel expansion terminates, also when tunnels feed each other in a
   cycle: every call of TunnelEnd::expand returns, each end becomes Done at
   most once, and a call that re-enters an Expanding end contributes no
   ports *)
ExpansionTerminates ==
  /\ \A i \in 1..Len(Expands) : Running(i) >= 0
  /\ phase = "built" =>
       /\ Running(Len(Expands)) = 0
       /\ \A i \in 1..Len(Expands) :
            Expands[i].op = "call" =>
              \E j \in (i + 1)..Len(Expands) :
                /\ Expands[j].op = "return" /\ Expands[j].end = Expands[i].end
                /\ Running(j) = Running(i) - 1
  /\ \A d \in 1..Len(tunnel_ends) :
       Cardinality({ i \in 2..Len(Expands) :
                       StateAt(i - 1, d) # Done /\ StateAt(i, d) = Done }) <= 1
  /\ \A i \in 1..Len(Expands) :
       (Expands[i].op = "call" /\ StateAt(i, Expands[i].end) = Expanding) =>
         /\ i < Len(Expands)
         /\ Expands[i + 1] = [Expands[i] EXCEPT !.op = "return"]
         /\ Expands[i + 1].appended = << >>

\* a tunnel fed from its own output: the re-entry comes when the end has
\* already collected a port
ExpansionTerminatesWitness ==
  /\ phase = "built"
  /\ \E i \in 1..Len(Expands) :
       /\ Expands[i].op = "call"
       /\ StateAt(i, Expands[i].end) = Expanding
       /\ Expands[i].tunnel_ends[Expands[i].end].correspond # << >>
       /\ Running(i) >= 2


-----------------------------------------------------------------------------
(* Configurations with a connection tunnel declared inside a compound body *)

MaxBodyTunnelStatements == 3

BodyTunnelStatements ==
  { << P("elementclass"), I("C"), P("{"),
       P("connectiontunnel"), I("a"), P("->"), I("b"), P(";"),
       I("input"), P("->"), I("a"), P(";"),
       I("b"), P("->"), I("output"), P("}") >>,
    << P("connectiontunnel"), I("p"), P("->"), I("q"), P(";") >>,
    << P("connectiontunnel"), I("r"), P("->"), I("s"), P(";") >>,
    << I("Id"), P("->"), I("C"), P("->"), I("Id"), P(";") >>,
    << I("Id"), P("->"), I("r"), P(";") >>,
    << I("s"), P("->"), I("Id"), P(";") >> }

BodyTunnelPrograms == Texts(BodyTunnelStatements, MaxBodyTunnelStatements)

NextBodyTunnels ==
  \/ \E name \in PrimitiveNames : AddElementType(name)
  \/ \E text \in BodyTunnelPrograms : BeginParse(text)
  \/ Ystatement
  \/ CreateRouter
  \/ EndParse

SpecBodyTunnels == Init /\ [][NextBodyTunnels]_vars

\* the next call of ystatement() parses an elementclass statement
AtElementclass ==
  /\ phase = "parsing" /\ tpos = tfull
  /\ data # << >> /\ Head(data).kind = "elementclass"

(* C17: a connectiontunnel statement parsed inside a compound body leaves the
   input-end and output-end lists of the enclosing scope unchanged once the
   body is closed *)
TunnelEndsAreScopeLocal ==
  [][AtElementclass => (definputs' = definputs /\ defoutputs' = defoutputs)]_vars


-----------------------------------------------------------------------------
(* The expansion scan of create_router *)

Expansions == router.expansions

\* element i has a class record, and it is a compound or a synonym of one
HasCompoundClass(i) ==
  LET t == At(elements, i)
  IN /\ t # TUNNEL_TYPE
     /\ t \in 0..(Len(element_types) - 1)
     /\ At(element_types, t) # 0
     /\ is_compound(heap, At(element_types, t))

(* C18: when the expansion scan of create_router has passed the end of the
   growing element list no element has a compound class, and an element
   retyped to the error class on an overload miss is never expanded and adds
   no elements or connections *)
ScanLeavesNoCompound ==
  phase = "built" =>
    /\ \A i \in 0..(Len(elements) - 1) : ~HasCompoundClass(i)
    /\ \A k \in 1..Len(Expansions) :
         Expansions[k].found = 0 =>
           /\ Expansions[k].grew = << 0, 0 >>
           /\ At(elements, Expansions[k].which) = ERROR_TYPE
           /\ \A j \in (k + 1)..Len(Expansions) :
                Expansions[j].which # Expansions[k].which

\* one element is expanded, which makes the list grow, and another one
\* misses every overload
ScanLeavesNoCompoundWitness ==
  /\ phase = "built"
  /\ \E j \in 1..Len(Expansions) :
       Expansions[j].grew[1] > 0 /\ At(elements, Expansions[j].which) = TUNNEL_TYPE
  /\ \E k \in 1..Len(Expansions) :
       Expansions[k].found = 0 /\ At(elements, Expansions[k].which) = ERROR_TYPE


-----------------------------------------------------------------------------
(* Configurations with synonym classes *)

MaxSynonymStatements == 3

SynonymStatements ==
  { << P("elementclass"), I("C"), P("{"),
       I("input"), P("->"), I("Id"), P("->"), I("output"), P("}") >>,
    << P("elementclass"), I("D"), I("C"), P(";") >>,
    << P("elementclass"), I("E"), I("Id"), P(";") >>,
    << I("Id"), P("->"), I("C"), P("->"), I("Id"), P(";") >>,
    << I("Id"), P("->"), I("D"), P("->"), I("Id"), P(";") >>,
    << I("Id"), P("->"), I("E"), P("->"), I("Id"), P(";") >> }

SynonymPrograms == Texts(SynonymStatements, MaxSynonymStatements)

NextSynonyms ==
  \/ \E name \in PrimitiveNames : AddElementType(name)
  \/ \E text \in SynonymPrograms : BeginParse(text)
  \/ Ystatement
  \/ CreateRouter
  \/ EndParse

SpecSynonyms == Init /\ [][NextSynonyms]_vars

\* the body an element of class slot etype is to be flattened with: the one
\* find_relevant_class selects from the compound that etype names, directly
\* or through synonyms
BodyOfTarget(x) ==
  find_relevant_class(heap, cast_compound(heap, At(element_types, x.etype)),
                      x.ninputs, x.noutputs, x.nargs)

(* C19: a synonym is a pure alias: after `elementclass D C' an element of
   class D is flattened as an element of class C is, also when C is a
   compound *)
SynonymIsAlias ==
  phase = "built" =>
    \A k \in 1..Len(Expansions) :
      Expansions[k].found = BodyOfTarget(Expansions[k])


-----------------------------------------------------------------------------
(* Any token stream *)

MaxTokens == 3

Tokens ==
  { I("a"), I("1"), P("::"), P("->"), P("["), P("]"), P("("), P(")"),
    P(","), P(";"), P("{"), P("}"), P("||"), P("..."),
    P("elementclass"), P("connectiontunnel"), P("require"),
    P("|"), Variable(Str("$v")) }
TokenStreams == Texts({ << t >> : t \in Tokens }, MaxTokens)

NextTokens ==
  \/ \E text \in TokenStreams : BeginParse(text)
  \/ Ystatement
  \/ EndParse

SpecTokens == Init /\ [][NextTokens]_vars

MostPending == router.most_pending

(* C20: while any token stream is parsed, the lexemes pushed back and not yet
   re-read never number more than two, so the ring never overflows and the
   assertion _tfull != _tpos of unlex holds at every call *)
PushbackStaysWithinTwo ==
  /\ MostPending <= 2
  /\ Pending <= 2
  /\ ~aborted

PushbackStaysWithinTwoWitness ==
  /\ phase = "parsed"
  /\ MostPending >= 1


-----------------------------------------------------------------------------
(* Configurations whose compound bodies use compound classes *)

MaxNestingStatements == 3

NestingStatements ==
  { << P("elementclass"), I("C"), P("{"),
       I("input"), P("->"), I("Id"), P("->"), I("output"), P("}") >>,
    << P("elementclass"), I("C"), P("{"),
       I("input"), P("->"), I("C"), P("->"), I("output"), P("}") >>,
    << P("elementclass"), I("C"), P("{"), P("..."), P("||"),
       I("C"), P("->"), I("output"), P("}") >>,
    << P("elementclass"), I("D"), P("{") >> \o InnerX
      \o << I("input"), P("->"), I("X"), P("->"), I("output"), P("}") >>,
    << I("Id"), P("->"), I("C"), P("->"), I("Id"), P(";") >>,
    << I("Id"), P("->"), I("D"), P("->"), I("Id"), P(";") >>,
    << I("C"), P("->"), I("Id"), P(";") >> }

NestingPrograms == Texts(NestingStatements, MaxNestingStatements)

NextNesting ==
  \/ \E name \in PrimitiveNames : AddElementType(name)
  \/ \E text \in NestingPrograms : BeginParse(text)
  \/ Ystatement
  \/ CreateRouter
  \/ EndParse

SpecNesting == Init /\ [][NextNesting]_vars

RECURSIVE ChainOf(_)
\* the records find_relevant_class can reach from record h: _next of a
\* compound, the target of a synonym
ChainOf(h) ==
  IF h = 0 THEN {}
  ELSE {h} \cup ChainOf(IF heap[h].kind = "Synonym" THEN heap[h].element
                        ELSE heap[h].next)

\* the class slots through which body c can be selected
SlotsOf(c) ==
  { t \in 0..(Len(element_types) - 1) : c \in ChainOf(At(element_types, t)) }

\* the slot add_element_type gave the statement that declared body c
Registered(c) == CHOOSE t \in SlotsOf(c) : \A u \in SlotsOf(c) : t <= u

\* the class slots of the elements of body c, `input' and `output' apart
BodyClasses(c) ==
  { heap[c].elements[i] : i \in 1..Len(heap[c].elements) } \ { TUNNEL_TYPE }

\* the class slot element i had when the scan of create_router reached it
ClassWhenScanned(i) ==
  IF \E j \in 1..Len(Expansions) : Expansions[j].which = i
  THEN Expansions[CHOOSE j \in 1..Len(Expansions) : Expansions[j].which = i].etype
  ELSE At(elements, i)

\* the elements expansion k appended
Appended(k) ==
  Expansions[k].first..(Expansions[k].first + Expansions[k].grew[1] - 1)

(* C21, as the code has it: the expansion scan of create_router terminates
   for every program the parser can build: every element of a compound body
   has a class that was registered, by add_element_type, before the compound
   that owns the body was, and an overload chain only links to older records;
   so create_router returns having looked at each element of the final list
   at most once, in order, and every element an expansion appends has a
   class registered before the class of the element that was expanded *)
ExpansionIsWellFounded ==
  /\ \A c \in Compounds :
       /\ heap[c].next < c
       /\ SlotsOf(c) # {} => \A t \in BodyClasses(c) : t < Registered(c)
  /\ phase = "built" =>
       /\ \A k \in 1..Len(Expansions) :
            /\ Expansions[k].which \in 0..(Len(elements) - 1)
            /\ \A j \in 1..(k - 1) : Expansions[j].which < Expansions[k].which
       /\ \A k \in 1..Len(Expansions) :
            \A i \in Appended(k) : ClassWhenScanned(i) < Expansions[k].etype

(* C21: every element inside a compound body has a class record that was
   created before the record of the compound that owns the body *)
BodyClassRecordsAreOlder ==
  \A c \in Compounds :
    \A t \in BodyClasses(c) : At(element_types, t) < c

\* the scan has expanded an element that an expansion appended, which came
\* from a body that uses the class its own name was bound to before
ExpansionIsWellFoundedWitness ==
  /\ phase = "built"
  /\ \E j, k \in 1..Len(Expansions) :
       /\ Expansions[j].grew[1] > 0
       /\ Expansions[k].which \in Appended(j)
       /\ Expansions[k].grew[1] > 0
       /\ Expansions[j].found # 0 /\ Expansions[k].found # 0
       /\ heap[Expansions[j].found].name = heap[Expansions[k].found].name

====
